---- MODULE Spec2Model ----
(***************************************************************************)
(* AABBTree2<T, S, U>: a dynamic bounding-volume hierarchy over axis       *)
(* aligned boxes, stored in an indexed arena (m_nodes) with a free list    *)
(* (m_freeNode) and a lookup index (m_leafForData).                        *)
(*                                                                         *)
(* The model instantiates the template with S = 2 dimensions, U = small    *)
(* integers, and T = integers (every value is exactly representable in a   *)
(* double, so +, -, *, min and max are exact) plus the one value NaN.      *)
(* Slots are numbered from 0 as in the code; m_nodes is a function on      *)
(* 0 .. size-1.  std::nullopt is None.                                     *)
(***************************************************************************)
EXTENDS Integers, Sequences, FiniteSets, TLC

\* ------------------------------------------------------------------ bounds
\* The keys of the runs that record the calls that went through.
NumKeys == 4

\* The keys of the runs that record every call, the failed ones included.
NumKeysAll == 3

Keys == 1 .. NumKeys

KeysAll == 1 .. NumKeysAll

None == -1

\* The one non-number of T.  It only ever appears in argument boxes: the
\* arithmetic below is never applied to it (checkBounds rejects it first).
NaN == 99

Dims == 1 .. 2

\* ------------------------------------------------------------------ vecmath
Min(a, b) == IF a < b THEN a ELSE b

Max(a, b) == IF a > b THEN a ELSE b

BBox(x1, y1, x2, y2) == [min |-> <<x1, y1>>, max |-> <<x2, y2>>]

\* vm::is_nan(vec)
is_nan(v) == \E i \in Dims : v[i] = NaN

\* vm::merge(bbox, bbox): the smallest box that contains both
merge(a, b) ==
    [min |-> [i \in Dims |-> Min(a.min[i], b.min[i])],
     max |-> [i \in Dims |-> Max(a.max[i], b.max[i])]]

\* vm::bbox::contains(vec)
containsPoint(b, p) == \A i \in Dims : b.min[i] <= p[i] /\ p[i] <= b.max[i]

\* vm::bbox::contains(bbox)
containsBox(a, b) == \A i \in Dims : a.min[i] <= b.min[i] /\ b.max[i] <= a.max[i]

\* vm::bbox::volume()
volume(b) == (b.max[1] - b.min[1]) * (b.max[2] - b.min[2])

\* vm::intersect_ray_bbox(ray, bbox): the distance along the ray at which it
\* enters the box, NaN if it misses it.  Per axis, the candidate plane is the
\* face the origin lies outside of; the farthest candidate is the entry
\* point if it lies within the box on the other axis.  Directions have
\* components in {-1, 0, 1}, so that the division by a component is the
\* multiplication by it.
intersect_ray_bbox(r, b) ==
    LET inside(i) == b.min[i] <= r.origin[i] /\ r.origin[i] <= b.max[i]
        plane(i) == IF r.origin[i] < b.min[i] THEN b.min[i] ELSE b.max[i]
        distance(i) == IF ~inside(i) /\ r.direction[i] # 0
                       THEN (plane(i) - r.origin[i]) * r.direction[i]
                       ELSE -1
        bestPlane == IF distance(1) < distance(2) THEN 2 ELSE 1
        other == 3 - bestPlane
        coord == r.origin[other] + distance(bestPlane) * r.direction[other]
    IN IF \A i \in Dims : inside(i) THEN 0
       ELSE IF distance(bestPlane) < 0 THEN NaN
       ELSE IF coord < b.min[other] \/ coord > b.max[other] THEN NaN
       ELSE distance(bestPlane)

\* The boxes the callers insert.
B1 == BBox(0, 0, 2, 1)

B2 == BBox(-1, -1, 1, 1)

B3 == BBox(-2, -2, 0, 0)

B4 == BBox(0, 0, 1, 1)

\* The calls the callers make: key k is inserted or updated with BoxOf(k) or
\* MovedBoxOf(k).
BoxOf(k) == CASE k = 1 -> B1 [] k = 2 -> B2 [] k = 3 -> B3 [] OTHER -> B4

MovedBoxOf(k) == CASE k = 1 -> B3 [] OTHER -> BoxOf(k)

NaNBox == BBox(0, NaN, 1, 1)

\* A NaN in each coordinate of min and of max.
NaNBoxes == {BBox(NaN, 0, 1, 1), NaNBox, BBox(0, 0, NaN, 1), BBox(0, 0, 1, NaN)}

NoBox == BBox(0, 0, 0, 0)

\* ------------------------------------------------------------------ nodes
\* std::variant<AABBFreeNode, AABBInnerNode, AABBLeafNode>; the fields a
\* variant does not have are held at fixed values.
FreeNode(next) ==
    [type |-> "free", bounds |-> NoBox, parentIndex |-> None,
     leftChildIndex |-> None, rightChildIndex |-> None, height |-> 0,
     data |-> None, next |-> next]

InnerNode(bounds, parentIndex, left, right, height) ==
    [type |-> "inner", bounds |-> bounds, parentIndex |-> parentIndex,
     leftChildIndex |-> left, rightChildIndex |-> right, height |-> height,
     data |-> None, next |-> None]

LeafNode(bounds, parentIndex, data) ==
    [type |-> "leaf", bounds |-> bounds, parentIndex |-> parentIndex,
     leftChildIndex |-> None, rightChildIndex |-> None, height |-> 0,
     data |-> data, next |-> None]

\* m_nodes, m_leafForData and m_freeNode are the members of one tree, and
\* choice is the static local of selectSubtreeForInsertion, of which the
\* process has one for all trees.  other is a second tree of the same
\* process (its members, and the call it has yet to receive in a run that
\* gives both trees the same calls); the runs with one tree leave it as
\* constructed.  delayer is a SignalDelayer with the event loop it posts
\* its timers to, and expression is an EL expression; the runs of the tree
\* leave both as they start.
VARIABLES m_nodes, m_leafForData, m_freeNode, choice, invalid, last, other,
          delayer, expression

vars == <<m_nodes, m_leafForData, m_freeNode, choice, invalid, last, other,
          delayer, expression>>

\* the variables of the trees
treeVars == <<m_nodes, m_leafForData, m_freeNode, choice, invalid, last, other>>

\* The tree as one value: the operators below take it and return it.
Tree == [nodes |-> m_nodes, leafForData |-> m_leafForData,
         freeNode |-> m_freeNode, choice |-> choice, invalid |-> invalid]

Size(t) == Cardinality(DOMAIN t.nodes)

\* ------------------------------------------------------------------ accessors
\* Each accessor throws NodeTreeException("Invalid node type") on a node of
\* the wrong variant.  A getter is modelled by its value and by the
\* predicate that tells when it throws; an operator that changes the tree
\* records the throw in the tree's invalid flag.
\* m_nodes[index].  The code never indexes outside the vector on a tree that
\* satisfies its invariants; a slot outside it reads as no node, so that the
\* wrong-variant branch is what such a read reaches.
NodeAt(t, index) ==
    IF index \in DOMAIN t.nodes THEN t.nodes[index] ELSE FreeNode(None)

IsFree(t, index) == NodeAt(t, index).type = "free"

IsInner(t, index) == NodeAt(t, index).type = "inner"

IsLeaf(t, index) == NodeAt(t, index).type = "leaf"

\* m_leafForData[data] = index (std::unordered_map::operator[])
MapPut(f, data, index) ==
    [d \in DOMAIN f \cup {data} |-> IF d = data THEN index ELSE f[d]]

\* an erase that leaves the entry in the map
MapEraseKept(f, data) == f

\* m_leafForData.erase(it)
MapErase(f, data) == [d \in DOMAIN f \ {data} |-> f[d]]

Invalidate(t) == [t EXCEPT !.invalid = TRUE]

getParentIndex(t, index) == NodeAt(t, index).parentIndex

\* a setParentIndex that leaves the parent of the node as it was
setParentIndexKept(t, nodeIndex, parentIndex) ==
    IF IsFree(t, nodeIndex) THEN Invalidate(t) ELSE t

setParentIndex(t, nodeIndex, parentIndex) ==
    IF IsFree(t, nodeIndex)
    THEN Invalidate(t)
    ELSE [t EXCEPT !.nodes[nodeIndex].parentIndex = parentIndex]

getLeftChildIndex(t, index) == NodeAt(t, index).leftChildIndex

getRightChildIndex(t, index) == NodeAt(t, index).rightChildIndex

getSiblingIndex(t, index) ==
    LET parentIndex == getParentIndex(t, index)
        innerNode == NodeAt(t, parentIndex)
    IN IF index = innerNode.leftChildIndex
       THEN innerNode.rightChildIndex
       ELSE innerNode.leftChildIndex

getNodeHeight(t, index) ==
    IF IsInner(t, index) THEN NodeAt(t, index).height ELSE 1

getNodeBounds(t, index) == NodeAt(t, index).bounds

\* ------------------------------------------------------------------ node store
\* a storeNode that does not enter a leaf into m_leafForData
storeNodeUnmapped(t, node) ==
    LET index == IF t.freeNode # None THEN t.freeNode ELSE Size(t)
        nodes1 == IF t.freeNode # None
                  THEN [t.nodes EXCEPT ![index] = node]
                  ELSE [i \in 0 .. Size(t) |->
                           IF i = index THEN node ELSE t.nodes[i]]
        free1 == IF t.freeNode # None
                 THEN NodeAt(t, t.freeNode).next
                 ELSE t.freeNode
    IN [t |-> [t EXCEPT !.nodes = nodes1, !.freeNode = free1],
        index |-> index]

\* a storeNode that appends to m_nodes whether there are free slots or not
storeNodeAppended(t, node) ==
    [t |-> [t EXCEPT !.nodes = [i \in 0 .. Size(t) |->
                                   IF i = Size(t) THEN node ELSE t.nodes[i]],
                     !.leafForData = IF node.type = "leaf"
                                     THEN MapPut(@, node.data, Size(t))
                                     ELSE @],
     index |-> Size(t)]

storeNode(t, node) ==
    LET index == IF t.freeNode # None THEN t.freeNode ELSE Size(t)
        nodes1 == IF t.freeNode # None
                  THEN [t.nodes EXCEPT ![index] = node]
                  ELSE [i \in 0 .. Size(t) |->
                           IF i = index THEN node ELSE t.nodes[i]]
        free1 == IF t.freeNode # None
                 THEN NodeAt(t, t.freeNode).next
                 ELSE t.freeNode
        lfd1 == IF node.type = "leaf"
                THEN MapPut(t.leafForData, node.data, index)
                ELSE t.leafForData
    IN [t |-> [t EXCEPT !.nodes = nodes1, !.freeNode = free1,
                        !.leafForData = lfd1],
        index |-> index]

\* a freeNode that does not link the slot to the slots freed before it
freeNodeUnlinked(t, index) ==
    IF IsFree(t, index)
    THEN Invalidate(t)
    ELSE [t EXCEPT !.nodes[index] = FreeNode(None),
                   !.freeNode = index]

freeNode(t, index) ==
    IF IsFree(t, index)
    THEN Invalidate(t)
    ELSE [t EXCEPT !.nodes[index] = FreeNode(t.freeNode),
                   !.freeNode = index]

\* a moveNode that leaves the entry of a moved leaf in m_leafForData as it was
moveNodeStaleEntry(t, fromIndex, toIndex) ==
    LET node == NodeAt(t, fromIndex)
        t1 == [t EXCEPT !.nodes[toIndex] = node]
        t2 == IF node.type = "inner"
              THEN setParentIndex(
                       setParentIndex(t1, node.leftChildIndex, toIndex),
                       node.rightChildIndex, toIndex)
              ELSE t1
    IN freeNode(t2, fromIndex)

\* a moveNode that leaves the children of a moved inner node with the
\* parent index they had
moveNodeChildrenKept(t, fromIndex, toIndex) ==
    LET node == NodeAt(t, fromIndex)
        t1 == [t EXCEPT !.nodes[toIndex] = node]
    IN freeNode(IF node.type = "leaf"
                THEN [t1 EXCEPT !.leafForData = MapPut(@, node.data, toIndex)]
                ELSE t1,
                fromIndex)

\* a moveNode that does not free the slot it moved the node from
moveNodeSourceKept(t, fromIndex, toIndex) ==
    LET node == NodeAt(t, fromIndex)
        t1 == [t EXCEPT !.nodes[toIndex] = node]
    IN IF node.type = "inner"
       THEN setParentIndex(setParentIndex(t1, node.leftChildIndex, toIndex),
                           node.rightChildIndex, toIndex)
       ELSE IF node.type = "leaf"
       THEN [t1 EXCEPT !.leafForData = MapPut(@, node.data, toIndex)]
       ELSE t1

moveNode(t, fromIndex, toIndex) ==
    LET node == NodeAt(t, fromIndex)
        t1 == [t EXCEPT !.nodes[toIndex] = node]
        t2 == IF node.type = "inner"
              THEN setParentIndex(
                       setParentIndex(t1, node.leftChildIndex, toIndex),
                       node.rightChildIndex, toIndex)
              ELSE IF node.type = "leaf"
              THEN [t1 EXCEPT !.leafForData = MapPut(@, node.data, toIndex)]
              ELSE t1
    IN freeNode(t2, fromIndex)

\* an updateBounds that only ever extends the bounds it finds
updateBoundsGrowOnly(t, index) ==
    IF ~IsInner(t, index)
    THEN [t |-> Invalidate(t), changed |-> FALSE]
    ELSE LET leftChildIndex == getLeftChildIndex(t, index)
             rightChildIndex == getRightChildIndex(t, index)
             oldBounds == NodeAt(t, index).bounds
             newBounds == merge(oldBounds,
                                merge(getNodeBounds(t, leftChildIndex),
                                      getNodeBounds(t, rightChildIndex)))
         IN [t |-> IF IsFree(t, leftChildIndex) \/ IsFree(t, rightChildIndex)
                   THEN Invalidate(t)
                   ELSE [t EXCEPT !.nodes[index].bounds = newBounds],
             changed |-> newBounds # oldBounds]

updateBounds(t, index) ==
    IF ~IsInner(t, index)
    THEN [t |-> Invalidate(t), changed |-> FALSE]
    ELSE LET leftChildIndex == getLeftChildIndex(t, index)
             rightChildIndex == getRightChildIndex(t, index)
             oldBounds == NodeAt(t, index).bounds
             newBounds == merge(getNodeBounds(t, leftChildIndex),
                                getNodeBounds(t, rightChildIndex))
         IN [t |-> IF IsFree(t, leftChildIndex) \/ IsFree(t, rightChildIndex)
                   THEN Invalidate(t)
                   ELSE [t EXCEPT !.nodes[index].bounds = newBounds],
             changed |-> newBounds # oldBounds]

updateHeight(t, index) ==
    IF ~IsInner(t, index)
    THEN [t |-> Invalidate(t), changed |-> FALSE]
    ELSE LET leftChildIndex == getLeftChildIndex(t, index)
             rightChildIndex == getRightChildIndex(t, index)
             oldHeight == NodeAt(t, index).height
             newHeight == Max(getNodeHeight(t, leftChildIndex),
                              getNodeHeight(t, rightChildIndex)) + 1
         IN [t |-> IF IsFree(t, leftChildIndex) \/ IsFree(t, rightChildIndex)
                   THEN Invalidate(t)
                   ELSE [t EXCEPT !.nodes[index].height = newHeight],
             changed |-> newHeight # oldHeight]

\* a selection that takes the higher child where the heights decide
selectSubtreeHigher(t, node1Index, node2Index, bounds) ==
    LET node1Bounds == getNodeBounds(t, node1Index)
        node2Bounds == getNodeBounds(t, node2Index)
        node1Contains == containsBox(node1Bounds, bounds)
        node2Contains == containsBox(node2Bounds, bounds)
        diff1 == volume(merge(node1Bounds, bounds)) - volume(node1Bounds)
        diff2 == volume(merge(node2Bounds, bounds)) - volume(node2Bounds)
        node1Height == getNodeHeight(t, node1Index)
        node2Height == getNodeHeight(t, node2Index)
        keep(index) == [index |-> index, choice |-> t.choice]
    IN IF node1Contains /\ ~node2Contains THEN keep(node1Index)
       ELSE IF ~node1Contains /\ node2Contains THEN keep(node2Index)
       ELSE IF ~node1Contains /\ ~node2Contains /\ diff1 < diff2
            THEN keep(node1Index)
       ELSE IF ~node1Contains /\ ~node2Contains /\ diff2 < diff1
            THEN keep(node2Index)
       ELSE IF node1Height < node2Height THEN keep(node2Index)
       ELSE IF node2Height < node1Height THEN keep(node1Index)
       ELSE [index |-> IF t.choice % 2 = 0 THEN node1Index ELSE node2Index,
             choice |-> (t.choice + 1) % 2]

\* a selection that takes the first child on every full tie
selectSubtreeAlwaysFirst(t, node1Index, node2Index, bounds) ==
    LET node1Bounds == getNodeBounds(t, node1Index)
        node2Bounds == getNodeBounds(t, node2Index)
        node1Contains == containsBox(node1Bounds, bounds)
        node2Contains == containsBox(node2Bounds, bounds)
        diff1 == volume(merge(node1Bounds, bounds)) - volume(node1Bounds)
        diff2 == volume(merge(node2Bounds, bounds)) - volume(node2Bounds)
        node1Height == getNodeHeight(t, node1Index)
        node2Height == getNodeHeight(t, node2Index)
        keep(index) == [index |-> index, choice |-> t.choice]
    IN IF node1Contains /\ ~node2Contains THEN keep(node1Index)
       ELSE IF ~node1Contains /\ node2Contains THEN keep(node2Index)
       ELSE IF ~node1Contains /\ ~node2Contains /\ diff1 < diff2
            THEN keep(node1Index)
       ELSE IF ~node1Contains /\ ~node2Contains /\ diff2 < diff1
            THEN keep(node2Index)
       ELSE IF node1Height < node2Height THEN keep(node1Index)
       ELSE IF node2Height < node1Height THEN keep(node2Index)
       ELSE keep(node1Index)

\* a selection that takes the child whose volume grows more
selectSubtreeLargerIncrease(t, node1Index, node2Index, bounds) ==
    LET node1Bounds == getNodeBounds(t, node1Index)
        node2Bounds == getNodeBounds(t, node2Index)
        node1Contains == containsBox(node1Bounds, bounds)
        node2Contains == containsBox(node2Bounds, bounds)
        diff1 == volume(merge(node1Bounds, bounds)) - volume(node1Bounds)
        diff2 == volume(merge(node2Bounds, bounds)) - volume(node2Bounds)
        node1Height == getNodeHeight(t, node1Index)
        node2Height == getNodeHeight(t, node2Index)
        keep(index) == [index |-> index, choice |-> t.choice]
    IN IF node1Contains /\ ~node2Contains THEN keep(node1Index)
       ELSE IF ~node1Contains /\ node2Contains THEN keep(node2Index)
       ELSE IF ~node1Contains /\ ~node2Contains /\ diff1 < diff2
            THEN keep(node2Index)
       ELSE IF ~node1Contains /\ ~node2Contains /\ diff2 < diff1
            THEN keep(node1Index)
       ELSE IF node1Height < node2Height THEN keep(node1Index)
       ELSE IF node2Height < node1Height THEN keep(node2Index)
       ELSE [index |-> IF t.choice % 2 = 0 THEN node1Index ELSE node2Index,
             choice |-> (t.choice + 1) % 2]

\* a selection that takes the child that does not contain the box where
\* exactly one child contains it
selectSubtreeNotContaining(t, node1Index, node2Index, bounds) ==
    LET node1Bounds == getNodeBounds(t, node1Index)
        node2Bounds == getNodeBounds(t, node2Index)
        node1Contains == containsBox(node1Bounds, bounds)
        node2Contains == containsBox(node2Bounds, bounds)
        diff1 == volume(merge(node1Bounds, bounds)) - volume(node1Bounds)
        diff2 == volume(merge(node2Bounds, bounds)) - volume(node2Bounds)
        node1Height == getNodeHeight(t, node1Index)
        node2Height == getNodeHeight(t, node2Index)
        keep(index) == [index |-> index, choice |-> t.choice]
    IN IF node1Contains /\ ~node2Contains THEN keep(node2Index)
       ELSE IF ~node1Contains /\ node2Contains THEN keep(node1Index)
       ELSE IF ~node1Contains /\ ~node2Contains /\ diff1 < diff2
            THEN keep(node1Index)
       ELSE IF ~node1Contains /\ ~node2Contains /\ diff2 < diff1
            THEN keep(node2Index)
       ELSE IF node1Height < node2Height THEN keep(node1Index)
       ELSE IF node2Height < node1Height THEN keep(node2Index)
       ELSE [index |-> IF t.choice % 2 = 0 THEN node1Index ELSE node2Index,
             choice |-> (t.choice + 1) % 2]

\* ------------------------------------------------------------------ insertion
\* Returns the chosen child and the new value of the function-local static
\* counter `choice` (unsigned, used only through choice % 2: the model keeps
\* its parity, which the wrap-around at 2^32 preserves).
selectSubtreeForInsertion(t, node1Index, node2Index, bounds) ==
    LET node1Bounds == getNodeBounds(t, node1Index)
        node2Bounds == getNodeBounds(t, node2Index)
        node1Contains == containsBox(node1Bounds, bounds)
        node2Contains == containsBox(node2Bounds, bounds)
        diff1 == volume(merge(node1Bounds, bounds)) - volume(node1Bounds)
        diff2 == volume(merge(node2Bounds, bounds)) - volume(node2Bounds)
        node1Height == getNodeHeight(t, node1Index)
        node2Height == getNodeHeight(t, node2Index)
        keep(index) == [index |-> index, choice |-> t.choice]
    IN IF node1Contains /\ ~node2Contains THEN keep(node1Index)
       ELSE IF ~node1Contains /\ node2Contains THEN keep(node2Index)
       ELSE IF ~node1Contains /\ ~node2Contains /\ diff1 < diff2
            THEN keep(node1Index)
       ELSE IF ~node1Contains /\ ~node2Contains /\ diff2 < diff1
            THEN keep(node2Index)
       ELSE IF node1Height < node2Height THEN keep(node1Index)
       ELSE IF node2Height < node1Height THEN keep(node2Index)
       ELSE [index |-> IF t.choice % 2 = 0 THEN node1Index ELSE node2Index,
             choice |-> (t.choice + 1) % 2]

\* The leaf case of the private insert: the leaf at nodeIndex becomes an inner
\* node over a copy of itself (stored first: s1) and the new leaf (stored
\* second: s2).
\* an inner node that takes the new leaf as its left child
makeInnerNewLeafFirst(s2, leftChildIndex, leafNode, nodeIndex, bounds) ==
    [s2.t EXCEPT !.nodes[nodeIndex] =
        InnerNode(merge(leafNode.bounds, bounds), leafNode.parentIndex,
                  s2.index, leftChildIndex, 2)]

makeInner(s2, leftChildIndex, leafNode, nodeIndex, bounds) ==
    [s2.t EXCEPT !.nodes[nodeIndex] =
        InnerNode(merge(leafNode.bounds, bounds), leafNode.parentIndex,
                  leftChildIndex, s2.index, 2)]

storeNewLeaf(s1, leafNode, nodeIndex, bounds, data) ==
    makeInner(storeNode(s1.t, LeafNode(bounds, nodeIndex, data)),
              s1.index, leafNode, nodeIndex, bounds)

splitLeaf(t, nodeIndex, bounds, data) ==
    storeNewLeaf(
        storeNode(t, LeafNode(NodeAt(t, nodeIndex).bounds, nodeIndex,
                              NodeAt(t, nodeIndex).data)),
        NodeAt(t, nodeIndex), nodeIndex, bounds, data)

\* One level of the way back up: the bounds and the height of the inner node
\* at index are recomputed, each only while its own flag is still set
\* (flag = flag && update(index)).  r is [t, boundsChanged, heightChanged].
heightStep(r, boundsChanged, uh) ==
    [t |-> uh.t, boundsChanged |-> boundsChanged, heightChanged |-> uh.changed]

\* a step that recomputes the height only where the bounds have changed
\* (one flag for both)
boundsStepCoupled(r, ub, index) ==
    heightStep(r, ub.changed,
               IF r.heightChanged /\ ub.changed THEN updateHeight(ub.t, index)
               ELSE [t |-> ub.t, changed |-> FALSE])

boundsStep(r, ub, index) ==
    heightStep(r, ub.changed,
               IF r.heightChanged THEN updateHeight(ub.t, index)
               ELSE [t |-> ub.t, changed |-> FALSE])

updateNode(r, index) ==
    boundsStep(r,
               IF r.boundsChanged THEN updateBounds(r.t, index)
               ELSE [t |-> r.t, changed |-> FALSE],
               index)

Flags(t, boundsChanged, heightChanged) ==
    [t |-> t, boundsChanged |-> boundsChanged, heightChanged |-> heightChanged]

RECURSIVE insertAt(_, _, _, _)
\* the descent into the child that selectSubtreeForInsertion chose
insertInto(t, sel, bounds, data) ==
    insertAt([t EXCEPT !.choice = sel.choice], sel.index, bounds, data)

\* std::tuple<bool, bool> insert(nodeIndex, bounds, data)
insertAt(t, nodeIndex, bounds, data) ==
    IF IsFree(t, nodeIndex)
    THEN Flags(Invalidate(t), FALSE, FALSE)
    ELSE IF IsInner(t, nodeIndex)
    THEN updateNode(
             insertInto(t,
                        selectSubtreeForInsertion(
                            t, getLeftChildIndex(t, nodeIndex),
                            getRightChildIndex(t, nodeIndex), bounds),
                        bounds, data),
             nodeIndex)
    ELSE Flags(splitLeaf(t, nodeIndex, bounds, data), TRUE, TRUE)

NoFlags == <<>>

NoArg == <<>>

\* The outcome of a public call: the tree it leaves, res ("ok", the boolean
\* returned or the exception thrown) and flags, the two booleans its
\* propagation ended with (computed and dropped by the code).
Outcome(t, res, flags) == [t |-> t, res |-> res, flags |-> flags]

Propagated(r, res) ==
    Outcome(r.t, res, <<r.boundsChanged, r.heightChanged>>)

\* a checkBounds that looks at bounds.max only
checkBoundsMaxOnly(bounds) == is_nan(bounds.max)

\* a checkBounds that looks at bounds.min only
checkBoundsMinOnly(bounds) == is_nan(bounds.min)

\* checkBounds(bounds) throws
checkBounds(bounds) == is_nan(bounds.min) \/ is_nan(bounds.max)

contains(t, data) == data \in DOMAIN t.leafForData

empty(t) == Size(t) = 0

\* an insert without the check that the data is not in the tree yet
insertUnchecked(t, bounds, data) ==
    IF checkBounds(bounds) THEN Outcome(t, "InvalidBounds", NoFlags)
    ELSE IF empty(t)
    THEN Outcome(storeNode(t, LeafNode(bounds, None, data)).t, "ok", NoFlags)
    ELSE Propagated(insertAt(t, 0, bounds, data), "ok")

\* an insert that looks for the data in the tree before it checks the bounds
insertKeyCheckedFirst(t, bounds, data) ==
    IF contains(t, data) THEN Outcome(t, "DuplicateKey", NoFlags)
    ELSE IF checkBounds(bounds) THEN Outcome(t, "InvalidBounds", NoFlags)
    ELSE IF empty(t)
    THEN Outcome(storeNode(t, LeafNode(bounds, None, data)).t, "ok", NoFlags)
    ELSE Propagated(insertAt(t, 0, bounds, data), "ok")

\* void insert(bounds, data)
insert(t, bounds, data) ==
    IF checkBounds(bounds) THEN Outcome(t, "InvalidBounds", NoFlags)
    ELSE IF contains(t, data) THEN Outcome(t, "DuplicateKey", NoFlags)
    ELSE IF empty(t)
    THEN Outcome(storeNode(t, LeafNode(bounds, None, data)).t, "ok", NoFlags)
    ELSE Propagated(insertAt(t, 0, bounds, data), "ok")

\* a clear that leaves m_leafForData as it was
clearNodesOnly(t) == [t EXCEPT !.nodes = <<>>, !.freeNode = None]

\* a clear that empties m_leafForData and nothing else
clearMapOnly(t) == [t EXCEPT !.leafForData = <<>>]

\* a clear that leaves m_freeNode as it was
clearFreeListKept(t) == [t EXCEPT !.nodes = <<>>, !.leafForData = <<>>]

\* void clear()
clear(t) == [t EXCEPT !.nodes = <<>>, !.leafForData = <<>>, !.freeNode = None]

RECURSIVE propagate(_, _)
\* the while loop of remove; r is [t, boundsChanged, heightChanged]
propagate(r, parentIndex) ==
    IF parentIndex # None /\ parentIndex # 0
       /\ (r.boundsChanged \/ r.heightChanged)
    THEN IF IsFree(r.t, parentIndex)
            \/ getParentIndex(r.t, parentIndex) = None
         THEN Flags(Invalidate(r.t), r.boundsChanged, r.heightChanged)
         ELSE propagate(updateNode(r, getParentIndex(r.t, parentIndex)),
                        getParentIndex(r.t, parentIndex))
    ELSE r

\* remove, from the move of the sibling on: the leaf at index is not the root
\* a removal that leaves the bounds and heights above the parent as they were
removeLeafLocal(t, data, index, parentIndex) ==
    LET grandParentIndex == getParentIndex(t, parentIndex)
        siblingIndex == getSiblingIndex(t, index)
        t1 == moveNode(t, siblingIndex, parentIndex)
        t2 == setParentIndex(t1, parentIndex, grandParentIndex)
        t3 == freeNode(t2, index)
        t4 == [t3 EXCEPT !.leafForData = MapErase(@, data)]
    IN Outcome(t4, TRUE, <<TRUE, TRUE>>)

\* a removal that leaves the moved sibling with the parent it had
removeLeafSiblingParentKept(t, data, index, parentIndex) ==
    LET siblingIndex == getSiblingIndex(t, index)
        t1 == moveNode(t, siblingIndex, parentIndex)
        t3 == freeNode(t1, index)
        t4 == [t3 EXCEPT !.leafForData = MapErase(@, data)]
    IN Propagated(propagate(Flags(t4, TRUE, TRUE), parentIndex), TRUE)

\* a removal that moves the leaf itself, not its sibling, into the slot of
\* the parent
removeLeafTargetMoved(t, data, index, parentIndex) ==
    LET grandParentIndex == getParentIndex(t, parentIndex)
        t1 == moveNode(t, index, parentIndex)
        t2 == setParentIndex(t1, parentIndex, grandParentIndex)
        t3 == freeNode(t2, index)
        t4 == [t3 EXCEPT !.leafForData = MapErase(@, data)]
    IN Propagated(propagate(Flags(t4, TRUE, TRUE), parentIndex), TRUE)

removeLeaf(t, data, index, parentIndex) ==
    LET grandParentIndex == getParentIndex(t, parentIndex)
        siblingIndex == getSiblingIndex(t, index)
        t1 == moveNode(t, siblingIndex, parentIndex)
        t2 == setParentIndex(t1, parentIndex, grandParentIndex)
        t3 == freeNode(t2, index)
        t4 == [t3 EXCEPT !.leafForData = MapErase(@, data)]
    IN Propagated(propagate(Flags(t4, TRUE, TRUE), parentIndex), TRUE)

\* a remove that reports true whether it found the data or not
removeAlwaysTrue(t, data) ==
    IF ~contains(t, data) THEN Outcome(t, TRUE, NoFlags)
    ELSE IF t.leafForData[data] = 0 THEN Outcome(clear(t), TRUE, NoFlags)
    ELSE IF IsFree(t, t.leafForData[data])
            \/ ~IsInner(t, getParentIndex(t, t.leafForData[data]))
    THEN Outcome(Invalidate(t), TRUE, NoFlags)
    ELSE removeLeaf(t, data, t.leafForData[data],
                    getParentIndex(t, t.leafForData[data]))

\* a remove that frees the slot of a root leaf and keeps the other slots
removeRootSlotFreed(t, data) ==
    IF ~contains(t, data) THEN Outcome(t, FALSE, NoFlags)
    ELSE IF t.leafForData[data] = 0
    THEN Outcome([freeNode(t, 0) EXCEPT !.leafForData = MapErase(@, data)],
                 TRUE, NoFlags)
    ELSE IF IsFree(t, t.leafForData[data])
            \/ ~IsInner(t, getParentIndex(t, t.leafForData[data]))
    THEN Outcome(Invalidate(t), TRUE, NoFlags)
    ELSE removeLeaf(t, data, t.leafForData[data],
                    getParentIndex(t, t.leafForData[data]))

\* bool remove(data)
remove(t, data) ==
    IF ~contains(t, data) THEN Outcome(t, FALSE, NoFlags)
    ELSE IF t.leafForData[data] = 0 THEN Outcome(clear(t), TRUE, NoFlags)
    ELSE IF IsFree(t, t.leafForData[data])
            \/ ~IsInner(t, getParentIndex(t, t.leafForData[data]))
    THEN Outcome(Invalidate(t), TRUE, NoFlags)
    ELSE removeLeaf(t, data, t.leafForData[data],
                    getParentIndex(t, t.leafForData[data]))

\* an update that inserts the data whether remove found it or not
insertAgainAlways(removed, newBounds, data) ==
    insert(removed.t, newBounds, data)

\* an update that ends after its remove
insertAgainDropped(removed, newBounds, data) ==
    IF ~removed.res THEN Outcome(removed.t, "NotFound", NoFlags)
    ELSE Outcome(removed.t, "ok", NoFlags)

\* update, after its call of remove, which ended as removed
insertAgain(removed, newBounds, data) ==
    IF ~removed.res THEN Outcome(removed.t, "NotFound", NoFlags)
    ELSE insert(removed.t, newBounds, data)

\* an update that leaves the check of newBounds to its insert
updateRemoveFirst(t, newBounds, data) ==
    insertAgain(remove(t, data), newBounds, data)

\* void update(newBounds, data)
update(t, newBounds, data) ==
    IF checkBounds(newBounds) THEN Outcome(t, "InvalidBounds", NoFlags)
    ELSE insertAgain(remove(t, data), newBounds, data)

\* ------------------------------------------------------------------ queries
\* The two visitors of a query: whether an inner node is entered and whether
\* a leaf is emitted, for a query [kind, arg].
intersects(ray, bounds) ==
    containsPoint(bounds, ray.origin) \/ intersect_ray_bbox(ray, bounds) # NaN

Matches(query, bounds) ==
    IF query.kind = "ray" THEN intersects(query.arg, bounds)
    ELSE containsPoint(bounds, query.arg)

RECURSIVE visitNode(_, _, _, _)
\* the items emitted below slot index, in the order of the visit; depth
\* counts the levels left (a tree has no more levels than slots).  The visit
\* of a Free node throws: it shows as the item None, which is no key.
\* a visit that enters the right child only where the left one emitted nothing
visitNodeEitherChild(t, query, index, depth) ==
    IF depth = 0 THEN <<>>
    ELSE IF IsFree(t, index) THEN <<None>>
    ELSE IF IsInner(t, index)
    THEN IF Matches(query, getNodeBounds(t, index))
         THEN IF visitNode(t, query, getLeftChildIndex(t, index), depth - 1)
                     # <<>>
              THEN visitNode(t, query, getLeftChildIndex(t, index), depth - 1)
              ELSE visitNode(t, query, getRightChildIndex(t, index), depth - 1)
         ELSE <<>>
    ELSE IF Matches(query, getNodeBounds(t, index))
         THEN <<NodeAt(t, index).data>>
         ELSE <<>>

visitNode(t, query, index, depth) ==
    IF depth = 0 THEN <<>>
    ELSE IF IsFree(t, index) THEN <<None>>
    ELSE IF IsInner(t, index)
    THEN IF Matches(query, getNodeBounds(t, index))
         THEN visitNode(t, query, getLeftChildIndex(t, index), depth - 1)
              \o visitNode(t, query, getRightChildIndex(t, index), depth - 1)
         ELSE <<>>
    ELSE IF Matches(query, getNodeBounds(t, index))
         THEN <<NodeAt(t, index).data>>
         ELSE <<>>

visitNodes(t, query) ==
    IF empty(t) THEN <<>> ELSE visitNode(t, query, 0, Size(t))

\* template <typename O> void findIntersectors(ray, O out): what out receives
findIntersectorsOut(t, ray) == visitNodes(t, [kind |-> "ray", arg |-> ray])

\* std::vector<U> findIntersectors(ray): out is std::back_inserter(result)
findIntersectors(t, ray) ==
    LET result == <<>>
    IN result \o findIntersectorsOut(t, ray)

\* template <typename O> void findContainers(point, O out): what out receives
findContainersOut(t, point) ==
    visitNodes(t, [kind |-> "point", arg |-> point])

\* std::vector<U> findContainers(point): out is result itself, passed by
\* value, so the items go to a copy of it and result is returned as it was
\* built.
findContainers(t, point) ==
    LET result == <<>>
        out == result \o findContainersOut(t, point)
    IN result

\* static constexpr EmptyBox: the box bounds() has for an empty tree
EmptyBox == BBox(NaN, NaN, NaN, NaN)

\* const vm::bbox<T,S>& bounds() const.  assert(!empty()) aborts where the
\* build keeps assertions (asserts) and is nothing where it drops them
\* (NDEBUG); res is "abort" or "ok", and out holds the box returned.
bounds(t, asserts) ==
    IF asserts /\ empty(t) THEN [res |-> "abort", out |-> <<>>]
    ELSE IF empty(t) THEN [res |-> "ok", out |-> <<EmptyBox>>]
    ELSE [res |-> "ok", out |-> <<getNodeBounds(t, 0)>>]

\* ------------------------------------------------------------------ actions
\* last: the latest recorded public call and its outcome: res is "ok", the
\* value returned ("true", "false") or the exception thrown; key is the key
\* of a call that went through (None for one that failed); flags are the
\* flags of that call's propagation.
\* A query is recorded with its argument (arg) and the items it returned (out).
\* pre is <<>>, or <<the tree before the call>> where a run keeps it; before
\* is <<>>, or <<the tree before the call>> of a remove that found its data
\* or of a clear.
Called(op, key, res, flags) ==
    [op |-> op, key |-> IF res \in {"ok", "true"} THEN key ELSE None,
     res |-> res, flags |-> flags, arg |-> NoArg, out |-> <<>>, pre |-> <<>>,
     before |-> <<>>]

Queried(op, arg, out) ==
    [op |-> op, key |-> None, res |-> "ok", flags |-> NoFlags,
     arg |-> arg, out |-> out, pre |-> <<>>, before |-> <<>>]

\* Every call is recorded when all is TRUE, and only the calls that went
\* through otherwise.
Record(call, all) ==
    last' = IF all \/ call.res \in {"ok", "true"} THEN call ELSE last

\* the members of this tree, and the static, become those of t
InstallThis(t) ==
    /\ m_nodes' = t.nodes
    /\ m_leafForData' = t.leafForData
    /\ m_freeNode' = t.freeNode
    /\ choice' = t.choice
    /\ invalid' = t.invalid

Install(t) ==
    /\ InstallThis(t)
    /\ UNCHANGED <<other, delayer, expression>>

\* SignalDelayer::SignalDelayer(parent): m_isQueued is false, and nothing
\* has been posted, called or emitted.  timers is the number of zero-delay
\* single-shot timers of the object that the event loop has yet to run,
\* emitting tells that a timer's callback is inside emit processSignal(),
\* calls, posted and emitted count the queueSignal() calls, the timers
\* posted and the emissions started, and waiting tells that queueSignal()
\* was called after the latest emission started.
SignalDelayer ==
    [m_isQueued |-> FALSE, timers |-> 0, emitting |-> FALSE,
     calls |-> 0, posted |-> 0, emitted |-> 0, waiting |-> FALSE]

\* no expression constructed yet
NoExpression == <<>>

\* a second tree as its constructor leaves it, with no call to receive
Constructed ==
    [nodes |-> <<>>, leafForData |-> <<>>, freeNode |-> None,
     invalid |-> FALSE, pending |-> <<>>]

Init ==
    /\ m_nodes = <<>>
    /\ m_leafForData = <<>>
    /\ m_freeNode = None
    /\ choice = 0
    /\ invalid = FALSE
    /\ last = Called("construct", None, "ok", NoFlags)
    /\ other = Constructed
    /\ delayer = SignalDelayer
    /\ expression = NoExpression

\* A public call ended as r: the tree is what it left, and it is recorded.
Return(op, data, r, all) ==
    /\ Install(r.t)
    /\ Record(Called(op, data, r.res, r.flags), all)

Insert(box, data, all) ==
    Return("insert", data, insert(Tree, box, data), all)

\* the boolean that remove returns, as it is recorded
Returned(r) == [r EXCEPT !.res = IF @ THEN "true" ELSE "false"]

Remove(data, all) ==
    Return("remove", data, Returned(remove(Tree, data)), all)

Update(newBounds, data, all) ==
    Return("update", data, update(Tree, newBounds, data), all)

Clear ==
    /\ Install(clear(Tree))
    /\ last' = Called("clear", None, "ok", NoFlags)

\* Every call recorded.
Next ==
    \/ \E k \in KeysAll : \E b \in {BoxOf(k), MovedBoxOf(k)} \cup NaNBoxes :
           Insert(b, k, TRUE)
    \/ \E k \in KeysAll : Remove(k, TRUE)
    \/ \E k \in KeysAll : \E b \in {BoxOf(k), MovedBoxOf(k)} \cup NaNBoxes :
           Update(b, k, TRUE)
    \/ Clear

Spec == Init /\ [][Next]_vars

\* The calls that went through recorded.
NextTree ==
    \/ \E k \in Keys : \E b \in {BoxOf(k), NaNBox} : Insert(b, k, FALSE)
    \/ \E k \in Keys : Remove(k, FALSE)
    \/ \E k \in Keys : \E b \in {BoxOf(k), MovedBoxOf(k), NaNBox} :
           Update(b, k, FALSE)
    \/ Clear

SpecTree == Init /\ [][NextTree]_vars

FindIntersectors(ray) ==
    /\ last' = Queried("findIntersectors", ray, findIntersectors(Tree, ray))
    /\ UNCHANGED <<m_nodes, m_leafForData, m_freeNode, choice, invalid, other,
                   delayer, expression>>

FindContainers(point) ==
    /\ last' = Queried("findContainers", point, findContainers(Tree, point))
    /\ UNCHANGED <<m_nodes, m_leafForData, m_freeNode, choice, invalid, other,
                   delayer, expression>>

\* what a call of bounds() ended as
BoundsReturned(r) ==
    /\ last' = [Queried("bounds", NoArg, r.out) EXCEPT !.res = r.res]
    /\ UNCHANGED <<m_nodes, m_leafForData, m_freeNode, choice, invalid, other,
                   delayer, expression>>

Bounds(asserts) == BoundsReturned(bounds(Tree, asserts))

\* The points and the rays of the queries.
Points == {<<0, 0>>, <<2, 1>>, <<-1, 0>>, <<2, -1>>, <<3, 3>>}

Ray(ox, oy, dx, dy) == [origin |-> <<ox, oy>>, direction |-> <<dx, dy>>]

Rays == {Ray(o[1], o[2], d[1], d[2]) :
            o \in {<<-3, 0>>, <<3, 3>>, <<0, 0>>, <<2, -2>>},
            d \in {<<1, 0>>, <<-1, 0>>, <<0, 1>>, <<-1, -1>>, <<-1, 1>>}}

\* Every call recorded, the queries included.
NextQuery ==
    \/ Next
    \/ \E ray \in Rays : FindIntersectors(ray)
    \/ \E point \in Points : FindContainers(point)
    \/ \E asserts \in BOOLEAN : Bounds(asserts)

SpecQuery == Init /\ [][NextQuery]_vars

\* A call recorded with the tree it started from: an insert that went through
\* keeps the tree before it, the remove of the same key right after it
\* keeps what that insert kept, and a remove that found its data keeps the
\* tree before it as well.
ReturnFrom(op, data, r) ==
    /\ Install(r.t)
    /\ last' = [Called(op, data, r.res, r.flags) EXCEPT !.pre =
                    IF op = "insert" /\ r.res = "ok" THEN <<Tree>>
                    ELSE IF op = "remove" /\ last.op = "insert"
                            /\ last.key = data
                    THEN last.pre
                    ELSE <<>>,
                !.before =
                    IF op = "remove" /\ r.res = "true" THEN <<Tree>>
                    ELSE <<>>]

InsertFrom(box, data) ==
    ReturnFrom("insert", data, insert(Tree, box, data))

RemoveFrom(data) ==
    ReturnFrom("remove", data, Returned(remove(Tree, data)))

\* clear() recorded with the tree it started from
ClearFrom ==
    /\ Install(clear(Tree))
    /\ last' = [Called("clear", None, "ok", NoFlags) EXCEPT
                    !.before = <<Tree>>]

\* Insert, remove and clear recorded with the tree they started from, and of
\* the other calls those that went through.
NextRound ==
    \/ \E k \in Keys : \E b \in {BoxOf(k), MovedBoxOf(k), NaNBox} :
           InsertFrom(b, k)
    \/ \E k \in Keys : RemoveFrom(k)
    \/ \E k \in Keys : \E b \in {BoxOf(k), MovedBoxOf(k), NaNBox} :
           Update(b, k, FALSE)
    \/ ClearFrom

SpecRound == Init /\ [][NextRound]_vars

\* ------------------------------------------------------------------ two trees
\* Two trees of one process: each call goes to this tree first and to the
\* other tree next, so that both receive the same calls.  Every call of
\* either tree reads and advances the one static of
\* selectSubtreeForInsertion.
\* the other tree as a tree value: its own members and the shared static
OtherTree ==
    [nodes |-> other.nodes, leafForData |-> other.leafForData,
     freeNode |-> other.freeNode, choice |-> choice,
     invalid |-> other.invalid]

\* a call as it is handed to a tree
CallOf(op, box, data) == [op |-> op, box |-> box, data |-> data]

\* what the call leaves of the tree t
Apply(t, call) ==
    IF call.op = "insert" THEN insert(t, call.box, call.data)
    ELSE IF call.op = "remove" THEN Returned(remove(t, call.data))
    ELSE IF call.op = "update" THEN update(t, call.box, call.data)
    ELSE Outcome(clear(t), "ok", NoFlags)

\* the call ended as r on this tree, and the other tree is to receive it
ReturnThis(call, r) ==
    /\ InstallThis(r.t)
    /\ last' = Called(call.op, call.data, r.res, r.flags)
    /\ other' = [other EXCEPT !.pending = <<call>>]
    /\ UNCHANGED <<delayer, expression>>

\* the call the other tree had to receive ended as r on it
ReturnOther(r) ==
    /\ other' = [nodes |-> r.t.nodes, leafForData |-> r.t.leafForData,
                 freeNode |-> r.t.freeNode, invalid |-> r.t.invalid,
                 pending |-> <<>>]
    /\ choice' = r.t.choice
    /\ UNCHANGED <<m_nodes, m_leafForData, m_freeNode, invalid, last,
                   delayer, expression>>

CallThis(call) ==
    /\ other.pending = <<>>
    /\ ReturnThis(call, Apply(Tree, call))

CallOther ==
    /\ other.pending # <<>>
    /\ ReturnOther(Apply(OtherTree, other.pending[1]))

NextTwo ==
    \/ \E k \in KeysAll : CallThis(CallOf("insert", BoxOf(k), k))
    \/ \E k \in KeysAll : CallThis(CallOf("remove", NoBox, k))
    \/ \E k \in KeysAll : CallThis(CallOf("update", MovedBoxOf(k), k))
    \/ CallThis(CallOf("clear", NoBox, None))
    \/ CallOther

SpecTwo == Init /\ [][NextTwo]_vars

\* ------------------------------------------------------------------ SignalDelayer
\* The calls of queueSignal() in a run.
MaxCalls == 8

\* a queueSignal that posts a timer whether one is pending or not
queueSignalAlwaysPosted(d) ==
    [d EXCEPT !.m_isQueued = TRUE, !.timers = @ + 1, !.posted = @ + 1,
              !.calls = @ + 1, !.waiting = TRUE]

\* void SignalDelayer::queueSignal(): returns when m_isQueued is set, and
\* otherwise sets it and posts a zero-delay single-shot timer
queueSignal(d) ==
    IF d.m_isQueued
    THEN [d EXCEPT !.calls = @ + 1, !.waiting = TRUE]
    ELSE [d EXCEPT !.m_isQueued = TRUE, !.timers = @ + 1, !.posted = @ + 1,
                   !.calls = @ + 1, !.waiting = TRUE]

\* a callback that leaves m_isQueued set when it emits
timerFiredFlagKept(d) ==
    [d EXCEPT !.timers = @ - 1, !.emitting = TRUE,
              !.emitted = @ + 1, !.waiting = FALSE]

\* the callback of the timer, up to the emit: m_isQueued = false, and the
\* emission of processSignal() starts
timerFired(d) ==
    [d EXCEPT !.m_isQueued = FALSE, !.timers = @ - 1, !.emitting = TRUE,
              !.emitted = @ + 1, !.waiting = FALSE]

\* queueSignal() called from the event loop's thread, outside the callback
QueueSignal ==
    /\ ~delayer.emitting
    /\ delayer.calls < MaxCalls
    /\ delayer' = queueSignal(delayer)
    /\ UNCHANGED <<treeVars, expression>>

\* the event loop runs a pending timer of the object
TimerFires ==
    /\ ~delayer.emitting
    /\ delayer.timers > 0
    /\ delayer' = timerFired(delayer)
    /\ UNCHANGED <<treeVars, expression>>

\* a slot connected to processSignal() calls queueSignal()
HandlerQueuesSignal ==
    /\ delayer.emitting
    /\ delayer.calls < MaxCalls
    /\ delayer' = queueSignal(delayer)
    /\ UNCHANGED <<treeVars, expression>>

\* emit processSignal() returns, and with it the callback
HandlerReturns ==
    /\ delayer.emitting
    /\ delayer' = [delayer EXCEPT !.emitting = FALSE]
    /\ UNCHANGED <<treeVars, expression>>

NextDelayer ==
    \/ QueueSignal
    \/ TimerFires
    \/ HandlerQueuesSignal
    \/ HandlerReturns

SpecDelayer == Init /\ [][NextDelayer]_vars

\* The event loop runs the timers that are pending, and the slots return.
SpecDelayerLive ==
    /\ Init
    /\ [][NextDelayer]_vars
    /\ WF_vars(TimerFires)
    /\ WF_vars(HandlerReturns)

\* ------------------------------------------------------------------ EL::Expression
\* An expression is a tuple: <<op, left, right>> is a BinaryExpression with
\* its two operands, and a tuple of length 1 is any other alternative of
\* the variant (a literal, a variable, a unary expression, ...).
Literal == <<"Literal">>

\* The operators that the expressions are built from, and the height of
\* the operands that a constructor call is given.
Operators == {"LogicalAnd", "Addition", "Multiplication"}
MaxHeight == 2

IsBinary(e) == Len(e) = 3

\* BinaryExpression::BinaryExpression(i_operator, leftOperand, rightOperand)
BinaryExpression(op, l, r) == <<op, l, r>>

\* size_t BinaryExpression::precedence() const
BinaryPrecedence(op) ==
    CASE op \in {"Multiplication", "Division", "Modulus"} -> 12
      [] op \in {"Addition", "Subtraction"} -> 11
      [] op \in {"BitwiseShiftLeft", "BitwiseShiftRight"} -> 10
      [] op \in {"Less", "LessOrEqual", "Greater", "GreaterOrEqual"} -> 9
      [] op \in {"Equal", "NotEqual"} -> 8
      [] op = "BitwiseAnd" -> 7
      [] op = "BitwiseXOr" -> 6
      [] op = "BitwiseOr" -> 5
      [] op = "LogicalAnd" -> 4
      [] op = "LogicalOr" -> 3
      [] op = "Range" -> 2
      [] op = "Case" -> 1

\* size_t Expression::precedence() const
precedence(e) == IF IsBinary(e) THEN BinaryPrecedence(e[1]) ELSE 13

\* what a failed assert of rebalanceByPrecedence leaves
AssertionFailed == <<"assert">>

\* a rebalancing that rotates the operand up and leaves the subtree that
\* the operator was pushed into as it is
rebalanceOnce(e) ==
    IF ~IsBinary(e) THEN AssertionFailed
    ELSE IF precedence(e) > (IF precedence(e[2]) < precedence(e[3])
                             THEN precedence(e[2]) ELSE precedence(e[3]))
    THEN IF precedence(e[2]) < precedence(e[3])
         THEN IF ~IsBinary(e[2]) THEN AssertionFailed
              ELSE <<e[2][1], e[2][2], <<e[1], e[2][3], e[3]>> >>
         ELSE IF ~IsBinary(e[3]) THEN AssertionFailed
              ELSE <<e[3][1], <<e[1], e[2], e[3][2]>>, e[3][3]>>
    ELSE e

\* std::min of the precedences of the two operands
MinPrecedence(e) ==
    IF precedence(e[2]) < precedence(e[3]) THEN precedence(e[2])
    ELSE precedence(e[3])

\* the node with the subtree sub in place of its left or right operand; a
\* failed assert below is a failed assert of the whole
WithLeft(e, sub) == IF sub = AssertionFailed THEN sub ELSE <<e[1], sub, e[3]>>
WithRight(e, sub) == IF sub = AssertionFailed THEN sub ELSE <<e[1], e[2], sub>>

\* void Expression::rebalanceByPrecedence()
RECURSIVE rebalanceByPrecedence(_)
rebalanceByPrecedence(e) ==
    IF ~IsBinary(e) THEN AssertionFailed
    ELSE IF precedence(e) > MinPrecedence(e)
    THEN IF precedence(e[2]) < precedence(e[3])
         THEN \* the left operand goes up, this node becomes its right operand
              IF ~IsBinary(e[2]) THEN AssertionFailed
              ELSE WithRight(e[2],
                       rebalanceByPrecedence(<<e[1], e[2][3], e[3]>>))
         ELSE \* the right operand goes up, this node becomes its left operand
              IF ~IsBinary(e[3]) THEN AssertionFailed
              ELSE WithLeft(e[3],
                       rebalanceByPrecedence(<<e[1], e[2], e[3][2]>>))
    ELSE e

\* Expression::Expression(BinaryExpression expression, line, column)
Expression(b) == rebalanceByPrecedence(b)

\* The expressions of height h at most that the constructors make.
RECURSIVE Built(_)
Built(h) ==
    IF h = 0 THEN {Literal}
    ELSE LET below == Built(h - 1)
         IN  below \cup {Expression(BinaryExpression(op, l, r)) :
                             op \in Operators, l \in below, r \in below}

Operands == Built(MaxHeight)

\* An Expression is made of a BinaryExpression over two expressions.
NewExpression(op, l, r) ==
    /\ expression = NoExpression
    /\ expression' = [operator |-> op, leftOperand |-> l, rightOperand |-> r,
                       m_expression |-> Expression(BinaryExpression(op, l, r))]
    /\ UNCHANGED <<treeVars, delayer>>

\* The Expression goes out of scope.
DeleteExpression ==
    /\ expression # NoExpression
    /\ expression' = NoExpression
    /\ UNCHANGED <<treeVars, delayer>>

NextExpression ==
    \/ \E op \in Operators, l \in Operands, r \in Operands :
           NewExpression(op, l, r)
    \/ DeleteExpression

SpecExpression == Init /\ [][NextExpression]_vars

\* ------------------------------------------------------------------ structural equality
\* operator== of two nodes of the same kind
NodeEquals(lhsNode, rhsNode) ==
    IF lhsNode.type = "inner"
    THEN lhsNode.bounds = rhsNode.bounds /\ lhsNode.height = rhsNode.height
    ELSE IF lhsNode.type = "leaf"
    THEN lhsNode.bounds = rhsNode.bounds /\ lhsNode.data = rhsNode.data
    ELSE lhsNode.next = rhsNode.next

\* a comparison of the two nodes alone, without their subtrees
compareSubtreesNodesOnly(lhs, rhs, lhsIndex, rhsIndex) ==
    /\ lhsIndex \in DOMAIN lhs.nodes
    /\ rhsIndex \in DOMAIN rhs.nodes
    /\ lhs.nodes[lhsIndex].type = rhs.nodes[rhsIndex].type
    /\ IsFree(lhs, lhsIndex)
         \/ NodeEquals(lhs.nodes[lhsIndex], rhs.nodes[rhsIndex])

RECURSIVE compareSubtrees(_, _, _, _)
compareSubtrees(lhs, rhs, lhsIndex, rhsIndex) ==
    IF lhsIndex \notin DOMAIN lhs.nodes \/ rhsIndex \notin DOMAIN rhs.nodes
    THEN FALSE
    ELSE IF IsFree(lhs, lhsIndex) /\ IsFree(rhs, rhsIndex) THEN TRUE
    ELSE IF IsInner(lhs, lhsIndex) /\ IsInner(rhs, rhsIndex)
    THEN /\ NodeEquals(lhs.nodes[lhsIndex], rhs.nodes[rhsIndex])
         /\ compareSubtrees(lhs, rhs, getLeftChildIndex(lhs, lhsIndex),
                            getLeftChildIndex(rhs, rhsIndex))
         /\ compareSubtrees(lhs, rhs, getRightChildIndex(lhs, lhsIndex),
                            getRightChildIndex(rhs, rhsIndex))
    ELSE IF IsLeaf(lhs, lhsIndex) /\ IsLeaf(rhs, rhsIndex)
    THEN NodeEquals(lhs.nodes[lhsIndex], rhs.nodes[rhsIndex])
    ELSE FALSE

\* friend bool operator==(lhs, rhs)
TreeEquals(lhs, rhs) ==
    (empty(lhs) /\ empty(rhs)) \/ compareSubtrees(lhs, rhs, 0, 0)

\* ------------------------------------------------------------------ consistency checks
Children(t, index) ==
    IF IsInner(t, index)
    THEN {getLeftChildIndex(t, index), getRightChildIndex(t, index)}
    ELSE {}

RECURSIVE markReachableNodesInSubtree(_, _)
\* the slots marked from the slots in marked on (a slot is marked once)
markReachableNodesInSubtree(t, marked) ==
    LET more == marked \cup
                    (UNION {Children(t, i) : i \in marked} \cap DOMAIN t.nodes)
    IN IF more = marked THEN marked
       ELSE markReachableNodesInSubtree(t, more)

markReachableNodes(t) ==
    IF empty(t) THEN {} ELSE markReachableNodesInSubtree(t, {0})

checkNodes(t) ==
    \A i \in DOMAIN t.nodes : (i \in markReachableNodes(t)) # IsFree(t, i)

checkLeafForData(t) ==
    IF DOMAIN t.leafForData = {}
    THEN empty(t) \/ IsFree(t, 0)
    ELSE /\ \A data \in DOMAIN t.leafForData :
               /\ t.leafForData[data] \in DOMAIN t.nodes
               /\ IsLeaf(t, t.leafForData[data])
               /\ NodeAt(t, t.leafForData[data]).data = data
         /\ \A i \in DOMAIN t.nodes :
               IsLeaf(t, i) =>
                   /\ t.nodes[i].data \in DOMAIN t.leafForData
                   /\ t.leafForData[t.nodes[i].data] = i

FreeSlots(t) == {i \in DOMAIN t.nodes : IsFree(t, i)}

LeafSlots(t) == {i \in DOMAIN t.nodes : IsLeaf(t, i)}

InnerSlots(t) == {i \in DOMAIN t.nodes : IsInner(t, i)}

RECURSIVE FreeChain(_, _, _)
\* the slots met from slot index on by following next, at most n of them
FreeChain(t, index, n) ==
    IF n = 0 \/ index \notin DOMAIN t.nodes \/ ~IsFree(t, index)
    THEN <<>>
    ELSE <<index>> \o FreeChain(t, t.nodes[index].next, n - 1)

\* where the chain from m_freeNode stops
FreeChainEnd(t) ==
    LET chain == FreeChain(t, t.freeNode, Size(t) + 1)
    IN IF chain = <<>> THEN t.freeNode
       ELSE t.nodes[chain[Len(chain)]].next

Range(seq) == {seq[i] : i \in DOMAIN seq}

\* ------------------------------------------------------------------ claims
\* C1: leafForData is a bijection between the keys in the tree and the Leaf
\* slots: every Leaf at slot i with payload d has leafForData[d] = i, every
\* entry d -> i points at a Leaf slot that holds d, and no two Leaf slots
\* hold the same key.
C1_LeafForDataBijection ==
    /\ \A i \in LeafSlots(Tree) :
          /\ m_nodes[i].data \in DOMAIN m_leafForData
          /\ m_leafForData[m_nodes[i].data] = i
    /\ \A d \in DOMAIN m_leafForData :
          /\ m_leafForData[d] \in LeafSlots(Tree)
          /\ m_nodes[m_leafForData[d]].data = d
    /\ \A i, j \in LeafSlots(Tree) :
          m_nodes[i].data = m_nodes[j].data => i = j
    /\ checkLeafForData(Tree)

\* a remove has just moved a sibling leaf into its parent's slot, in a tree
\* that keeps three keys
C1_Witness ==
    /\ last.op = "remove"
    /\ Cardinality(DOMAIN m_leafForData) = 3
    /\ \E d \in DOMAIN m_leafForData :
          /\ IsLeaf(Tree, m_leafForData[d])
          /\ \E f \in FreeSlots(Tree) : m_leafForData[d] < f

\* C2: every Inner node's cached bounds is the merge of its two children's
\* bounds and its cached height is 1 + the max of its children's heights (a
\* leaf's height is 1), at every level up to the root.
C2_CachedBoundsAndHeight ==
    \A i \in InnerSlots(Tree) :
        LET l == m_nodes[i].leftChildIndex
            r == m_nodes[i].rightChildIndex
        IN /\ l \in DOMAIN m_nodes /\ r \in DOMAIN m_nodes
           /\ ~IsFree(Tree, l) /\ ~IsFree(Tree, r)
           /\ m_nodes[i].bounds = merge(m_nodes[l].bounds, m_nodes[r].bounds)
           /\ m_nodes[i].height =
                  1 + Max(getNodeHeight(Tree, l), getNodeHeight(Tree, r))

\* the leaf that the latest insert split lies two levels below the root
DeepInsert ==
    /\ last.op = "insert"
    /\ last.flags # NoFlags
    /\ LET parentIndex == getParentIndex(Tree, m_leafForData[last.key])
       IN getParentIndex(Tree, parentIndex) \notin {None, 0}

\* an insert two levels below the root ended with one of bounds and height
\* still changing at the root and the other one stopped below it
C2_Witness ==
    /\ DeepInsert
    /\ last.flags[1] # last.flags[2]

\* C3: if nodes is non-empty, slot 0 is the root (not Free, no parent), every
\* slot reachable from slot 0 through left/right is not Free and every other
\* slot is Free.
C3_RootAndReachability ==
    ~empty(Tree) =>
        /\ ~IsFree(Tree, 0)
        /\ m_nodes[0].parentIndex = None
        /\ \A i \in markReachableNodes(Tree) :
              Children(Tree, i) \subseteq DOMAIN m_nodes
        /\ checkNodes(Tree)

\* a remove has promoted a subtree into slot 0 and left Free slots behind
C3_Witness ==
    /\ last.op = "remove"
    /\ ~empty(Tree)
    /\ IsInner(Tree, 0)
    /\ Cardinality(FreeSlots(Tree)) >= 2

\* C4: the Free slots form an acyclic singly linked list from freeHead to a
\* slot whose next is empty; it holds every Free slot once and no other slot
\* (freeHead is empty iff there is no Free slot).
C4_FreeList ==
    LET chain == FreeChain(Tree, m_freeNode, Size(Tree) + 1)
    IN /\ Range(chain) = FreeSlots(Tree)
       /\ Len(chain) = Cardinality(FreeSlots(Tree))
       /\ FreeChainEnd(Tree) = None
       /\ (m_freeNode = None) <=> (FreeSlots(Tree) = {})

\* an insert has taken slots from a free list of four and left two on it
C4_Witness ==
    /\ last.op = "insert"
    /\ Cardinality(FreeSlots(Tree)) = 2
    /\ Size(Tree) = 7

\* the keys whose leaf bounds pass the box test of the query, by a scan of
\* all the leaves
BruteForce(t, query) ==
    {t.nodes[i].data : i \in {j \in LeafSlots(t) :
                                  Matches(query, t.nodes[j].bounds)}}

\* C5: findContainers(point) returns exactly the keys in the tree whose leaf
\* bounds contain the point.
C5_FindContainersIsBruteForce ==
    last.op = "findContainers" =>
        Range(last.out) = BruteForce(Tree, [kind |-> "point", arg |-> last.arg])

\* C6: findIntersectors(ray) returns exactly the keys in the tree whose leaf
\* bounds contain the ray's origin or are intersected by the ray; each once,
\* and nothing on an empty tree.
C6_FindIntersectorsIsBruteForce ==
    last.op = "findIntersectors" =>
        /\ Range(last.out) = BruteForce(Tree, [kind |-> "ray", arg |-> last.arg])
        /\ Len(last.out) = Cardinality(Range(last.out))
        /\ empty(Tree) => last.out = <<>>

\* a ray from outside the root's bounds has hit two of three leaves and
\* missed the third
C6_Witness ==
    /\ last.op = "findIntersectors"
    /\ Cardinality(DOMAIN m_leafForData) = 3
    /\ Len(last.out) = 2
    /\ ~containsPoint(m_nodes[0].bounds, last.arg.origin)

\* C7: the remove of a key right after the insert that added it returns
\* true and leaves a tree equal (operator==) to the tree before the insert,
\* the bounds and the heights of the inner nodes included.
C7_InsertRemoveRoundTrip ==
    (last.op = "remove" /\ last.pre # <<>>) =>
        /\ last.res = "true"
        /\ TreeEquals(Tree, last.pre[1])

\* the round trip of a fourth key through a tree of three, where the remove
\* went up to the root with one of bounds and height still changing
C7_Witness ==
    /\ last.op = "remove"
    /\ last.pre # <<>>
    /\ Cardinality(DOMAIN m_leafForData) = 3
    /\ last.flags # NoFlags
    /\ last.flags[1] # last.flags[2]

\* C8: an insert of a key that is in the tree throws (DuplicateKey) and
\* leaves m_nodes, m_leafForData and m_freeNode as they were, whatever the
\* valid bounds.
C8_InsertDuplicate ==
    [][\A k \in KeysAll : \A b \in {BoxOf(k), MovedBoxOf(k)} :
          (contains(Tree, k) /\ Insert(b, k, TRUE)) =>
              /\ last'.res = "DuplicateKey"
              /\ UNCHANGED <<m_nodes, m_leafForData, m_freeNode>>]_vars

\* an insert of a key of a tree of two has thrown DuplicateKey
C8_Witness ==
    /\ last.op = "insert"
    /\ last.res = "DuplicateKey"
    /\ Cardinality(DOMAIN m_leafForData) = 2

\* C9: an insert with a NaN in a coordinate of min or max throws
\* (InvalidBounds) and leaves m_nodes, m_leafForData and m_freeNode as they
\* were; an empty tree stays empty.
C9_InsertNaN ==
    [][\A k \in KeysAll : \A b \in NaNBoxes :
          Insert(b, k, TRUE) =>
              /\ last'.res = "InvalidBounds"
              /\ UNCHANGED <<m_nodes, m_leafForData, m_freeNode>>
              /\ empty(Tree) => m_nodes' = <<>>]_vars

\* an insert into a tree of two has thrown InvalidBounds
C9_Witness ==
    /\ last.op = "insert"
    /\ last.res = "InvalidBounds"
    /\ Cardinality(DOMAIN m_leafForData) = 2

\* C10: a remove of a key with no leaf in the tree returns false, throws
\* nothing and leaves m_nodes, m_leafForData and m_freeNode as they were.
C10_RemoveMissing ==
    [][\A k \in KeysAll :
          (~contains(Tree, k) /\ Remove(k, TRUE)) =>
              /\ last'.res = "false"
              /\ ~invalid'
              /\ UNCHANGED <<m_nodes, m_leafForData, m_freeNode>>]_vars

\* a remove has returned false on a tree that keeps a key and a Free slot
\* (the key it did not find was in the tree before)
C10_Witness ==
    /\ last.op = "remove"
    /\ last.res = "false"
    /\ m_leafForData # <<>>
    /\ FreeSlots(Tree) # {}

\* the bounds of the leaf of a key of the tree
LeafBounds(t, data) == getNodeBounds(t, t.leafForData[data])

\* the tree after the step
TreeNext ==
    [nodes |-> m_nodes', leafForData |-> m_leafForData',
     freeNode |-> m_freeNode', choice |-> choice', invalid |-> invalid']

\* C11: a remove of a key that is in the tree returns true; afterwards the
\* key is not contained and has no entry in m_leafForData, and every other
\* key is still in the tree with the leaf bounds it had.
C11_RemovePresent ==
    [][\A k \in KeysAll :
          (contains(Tree, k) /\ Remove(k, TRUE)) =>
              /\ last'.res = "true"
              /\ ~contains(TreeNext, k)
              /\ k \notin DOMAIN m_leafForData'
              /\ DOMAIN m_leafForData' = DOMAIN m_leafForData \ {k}
              /\ \A d \in DOMAIN m_leafForData \ {k} :
                    /\ IsLeaf(TreeNext, m_leafForData'[d])
                    /\ LeafBounds(TreeNext, d) = LeafBounds(Tree, d)]_vars

\* a remove has returned true and left two keys in the tree
C11_Witness ==
    /\ last.op = "remove"
    /\ last.res = "true"
    /\ Cardinality(DOMAIN m_leafForData) = 2
    /\ last.key \notin DOMAIN m_leafForData

\* C12: an update with valid bounds of a key that is not in the tree throws
\* (NotFound) and leaves m_nodes, m_leafForData and m_freeNode as they were.
C12_UpdateMissing ==
    [][\A k \in KeysAll : \A b \in {BoxOf(k), MovedBoxOf(k)} :
          (~contains(Tree, k) /\ Update(b, k, TRUE)) =>
              /\ last'.res = "NotFound"
              /\ UNCHANGED <<m_nodes, m_leafForData, m_freeNode>>]_vars

\* an update has thrown NotFound on a tree that keeps two keys
C12_Witness ==
    /\ last.op = "update"
    /\ last.res = "NotFound"
    /\ Cardinality(DOMAIN m_leafForData) = 2

\* C13: an update with a NaN in a coordinate of newBounds throws
\* (InvalidBounds) before anything is removed: m_nodes, m_leafForData and
\* m_freeNode are as they were, and a key that was in the tree is still in it
\* with its old bounds.
C13_UpdateNaN ==
    [][\A k \in KeysAll : \A b \in NaNBoxes :
          Update(b, k, TRUE) =>
              /\ last'.res = "InvalidBounds"
              /\ UNCHANGED <<m_nodes, m_leafForData, m_freeNode>>
              /\ contains(Tree, k) =>
                    /\ contains(TreeNext, k)
                    /\ LeafBounds(TreeNext, k) = LeafBounds(Tree, k)]_vars

\* an update has thrown InvalidBounds on a tree that holds every key (the
\* key of the call among them)
C13_Witness ==
    /\ last.op = "update"
    /\ last.res = "InvalidBounds"
    /\ DOMAIN m_leafForData = KeysAll

\* C14: an update with valid bounds of a key that is in the tree goes
\* through and leaves what remove followed by insert leaves: the keys are
\* the same, the leaf of the key has the new bounds and every other key has
\* the bounds it had.
C14_UpdateIsRemoveThenInsert ==
    [][\A k \in KeysAll : \A b \in {BoxOf(k), MovedBoxOf(k)} :
          (contains(Tree, k) /\ Update(b, k, TRUE)) =>
              /\ last'.res = "ok"
              /\ remove(Tree, k).res
              /\ insert(remove(Tree, k).t, b, k).res = "ok"
              /\ TreeNext = insert(remove(Tree, k).t, b, k).t
              /\ DOMAIN m_leafForData' = DOMAIN m_leafForData
              /\ LeafBounds(TreeNext, k) = b
              /\ \A d \in DOMAIN m_leafForData \ {k} :
                    LeafBounds(TreeNext, d) = LeafBounds(Tree, d)]_vars

\* an update has moved key 1 to its other box in a tree of three keys
C14_Witness ==
    /\ last.op = "update"
    /\ last.res = "ok"
    /\ last.key = 1
    /\ DOMAIN m_leafForData = KeysAll
    /\ LeafBounds(Tree, 1) = MovedBoxOf(1)

\* the keys that contains(k) is true of
KeySet(t) == {k \in Keys : contains(t, k)}

\* the set of keys after a call, by what the call was and how it ended: an
\* insert that went through adds its key, a remove that returned true takes
\* its key away, a clear takes every key away and nothing else changes it
KeysAfter(call, keys) ==
    IF call.op = "insert" /\ call.res = "ok" THEN keys \cup {call.key}
    ELSE IF call.op = "remove" /\ call.res = "true" THEN keys \ {call.key}
    ELSE IF call.op = "clear" THEN {}
    ELSE keys

\* C15: contains(k) is true exactly of the keys that were inserted (by an
\* insert that went through) and not removed or cleared since: no key at
\* the start, and every call changes the keys as KeysAfter says.
C15_KeySetRefinement ==
    /\ KeySet(Tree) = {}
    /\ [][KeySet(TreeNext) = KeysAfter(last', KeySet(Tree))]_vars

\* an insert has thrown DuplicateKey on a tree of two keys from which a key
\* was removed before
C15_Witness ==
    /\ last.op = "insert"
    /\ last.res = "DuplicateKey"
    /\ Cardinality(KeySet(Tree)) = 2
    /\ FreeSlots(Tree) # {}

\* the least and the greatest element of a set of numbers
SetMin(S) == CHOOSE x \in S : \A y \in S : x <= y

SetMax(S) == CHOOSE x \in S : \A y \in S : y <= x

\* the smallest box around the bounds of all the leaves of a tree that has
\* one
BoundsOfAllLeaves(t) ==
    [min |-> [i \in Dims |->
                 SetMin({t.nodes[j].bounds.min[i] : j \in LeafSlots(t)})],
     max |-> [i \in Dims |->
                 SetMax({t.nodes[j].bounds.max[i] : j \in LeafSlots(t)})]]

\* C16: on a tree that is not empty bounds() returns the merge of the bounds
\* of all the keys in the tree (so it grows with an insert and shrinks back
\* with the remove or update of a key that held an extreme coordinate).
C16_BoundsIsMergeOfAll ==
    (last.op = "bounds" /\ ~empty(Tree)) =>
        /\ last.res = "ok"
        /\ last.out = <<BoundsOfAllLeaves(Tree)>>

\* bounds() on a tree of two keys that has lost the key with the least
\* coordinates: the box returned has shrunk to the two boxes left
C16_Witness ==
    /\ last.op = "bounds"
    /\ DOMAIN m_leafForData = {1, 2}
    /\ FreeSlots(Tree) # {}
    /\ last.out = <<merge(B1, B2)>>

\* C17: on an empty tree bounds() returns a box of NaN values and does not
\* fail or abort.
C17_BoundsOnEmpty ==
    (last.op = "bounds" /\ empty(Tree)) =>
        /\ last.res = "ok"
        /\ last.out = <<EmptyBox>>

\* C18: an insert into an empty tree makes the new leaf the root: m_nodes
\* holds one node, a Leaf at slot 0 with no parent and the bounds and data
\* of the call, m_leafForData maps the data to 0, no slot is free and
\* bounds() is the box inserted.
C18_InsertIntoEmpty ==
    [][\A k \in KeysAll : \A b \in {BoxOf(k), MovedBoxOf(k)} :
          (empty(Tree) /\ Insert(b, k, TRUE)) =>
              /\ last'.res = "ok"
              /\ m_nodes' = (0 :> LeafNode(b, None, k))
              /\ m_leafForData' = (k :> 0)
              /\ m_freeNode' = None
              /\ \A asserts \in BOOLEAN :
                    bounds(TreeNext, asserts) = [res |-> "ok", out |-> <<b>>]]_vars

\* an insert has gone through and left a tree of one node, a leaf
C18_Witness ==
    /\ last.op = "insert"
    /\ last.res = "ok"
    /\ Size(Tree) = 1
    /\ IsLeaf(Tree, 0)
    /\ m_leafForData = (last.key :> 0)

RECURSIVE Ancestors(_, _, _)
\* the slots from the parent of slot index up to the root, at most n of them
Ancestors(t, index, n) ==
    IF n = 0 \/ getParentIndex(t, index) = None THEN {}
    ELSE {getParentIndex(t, index)}
             \cup Ancestors(t, getParentIndex(t, index), n - 1)

\* the slots the insert of data went down through, in the tree after it
PathTo(post, data) == Ancestors(post, post.leafForData[data], Size(post))

\* the inner nodes of the tree before the insert of data at which the
\* descent selected a child (an insert moves no node that was in the tree)
Selections(pre, post, data) == InnerSlots(pre) \cap PathTo(post, data)

\* by how much the volume of a node's bounds grows when merged with b
VolumeIncrease(nodeBounds, b) == volume(merge(nodeBounds, b)) - volume(nodeBounds)

\* the insert just made is recorded with the tree it started from
InsertedFrom == last.op = "insert" /\ last.pre # <<>>

\* C19: at an inner node of the descent where neither child's bounds
\* contain the new box, the child whose volume grows strictly less when
\* merged with the new box is selected.
C19_SelectLeastVolumeIncrease ==
    InsertedFrom =>
        \A i \in Selections(last.pre[1], Tree, last.key) :
            LET b == LeafBounds(Tree, last.key)
                node1Index == getLeftChildIndex(last.pre[1], i)
                node2Index == getRightChildIndex(last.pre[1], i)
                node1Bounds == getNodeBounds(last.pre[1], node1Index)
                node2Bounds == getNodeBounds(last.pre[1], node2Index)
            IN (~containsBox(node1Bounds, b) /\ ~containsBox(node2Bounds, b)) =>
                   /\ VolumeIncrease(node1Bounds, b)
                          < VolumeIncrease(node2Bounds, b)
                      => /\ node1Index \in PathTo(Tree, last.key)
                         /\ node2Index \notin PathTo(Tree, last.key)
                   /\ VolumeIncrease(node2Bounds, b)
                          < VolumeIncrease(node1Bounds, b)
                      => /\ node2Index \in PathTo(Tree, last.key)
                         /\ node1Index \notin PathTo(Tree, last.key)

\* the scenario: box 3 inserted after boxes 1 and 2 is grouped with box 2,
\* root -> {leaf 1, inner{leaf 2, leaf 3}}
C19_Witness ==
    /\ InsertedFrom
    /\ last.key = 3
    /\ DOMAIN last.pre[1].leafForData = {1, 2}
    /\ IsInner(Tree, 0)
    /\ NodeAt(Tree, getLeftChildIndex(Tree, 0)) = LeafNode(B1, 0, 1)
    /\ IsInner(Tree, getRightChildIndex(Tree, 0))
    /\ LET inner == getRightChildIndex(Tree, 0)
       IN /\ NodeAt(Tree, getLeftChildIndex(Tree, inner)) =
                 LeafNode(B2, inner, 2)
          /\ NodeAt(Tree, getRightChildIndex(Tree, inner)) =
                 LeafNode(B3, inner, 3)

\* C20: at an inner node of the descent where the bounds of exactly one
\* child contain the new box, that child is selected, whatever the volumes
\* and the heights of the two children.
C20_SelectContainingChild ==
    InsertedFrom =>
        \A i \in Selections(last.pre[1], Tree, last.key) :
            LET b == LeafBounds(Tree, last.key)
                node1Index == getLeftChildIndex(last.pre[1], i)
                node2Index == getRightChildIndex(last.pre[1], i)
                node1Bounds == getNodeBounds(last.pre[1], node1Index)
                node2Bounds == getNodeBounds(last.pre[1], node2Index)
            IN /\ (containsBox(node1Bounds, b) /\ ~containsBox(node2Bounds, b))
                  => /\ node1Index \in PathTo(Tree, last.key)
                     /\ node2Index \notin PathTo(Tree, last.key)
               /\ (containsBox(node2Bounds, b) /\ ~containsBox(node1Bounds, b))
                  => /\ node2Index \in PathTo(Tree, last.key)
                     /\ node1Index \notin PathTo(Tree, last.key)

\* the root's left child contained the new box and was the higher and the
\* larger of the two children, the right child did not contain it, and the
\* new leaf went below the left child
C20_Witness ==
    /\ InsertedFrom
    /\ IsInner(last.pre[1], 0)
    /\ LET b == LeafBounds(Tree, last.key)
           node1Index == getLeftChildIndex(last.pre[1], 0)
           node2Index == getRightChildIndex(last.pre[1], 0)
       IN /\ containsBox(getNodeBounds(last.pre[1], node1Index), b)
          /\ ~containsBox(getNodeBounds(last.pre[1], node2Index), b)
          /\ getNodeHeight(last.pre[1], node1Index)
                > getNodeHeight(last.pre[1], node2Index)
          /\ volume(getNodeBounds(last.pre[1], node1Index))
                > volume(getNodeBounds(last.pre[1], node2Index))
          /\ node1Index \in PathTo(Tree, last.key)

\* the two children tie on containment and on the increase of the volume:
\* both contain b, or neither does and the two increases are equal
VolumeTie(node1Bounds, node2Bounds, b) ==
    \/ containsBox(node1Bounds, b) /\ containsBox(node2Bounds, b)
    \/ /\ ~containsBox(node1Bounds, b) /\ ~containsBox(node2Bounds, b)
       /\ VolumeIncrease(node1Bounds, b) = VolumeIncrease(node2Bounds, b)

\* C21: at an inner node of the descent where both children contain the new
\* box, or neither does and the two volume increases are equal, the child
\* with the strictly smaller cached height is selected.
C21_SelectShallowerChild ==
    InsertedFrom =>
        \A i \in Selections(last.pre[1], Tree, last.key) :
            LET b == LeafBounds(Tree, last.key)
                node1Index == getLeftChildIndex(last.pre[1], i)
                node2Index == getRightChildIndex(last.pre[1], i)
                node1Height == getNodeHeight(last.pre[1], node1Index)
                node2Height == getNodeHeight(last.pre[1], node2Index)
            IN VolumeTie(getNodeBounds(last.pre[1], node1Index),
                         getNodeBounds(last.pre[1], node2Index), b) =>
                   /\ node1Height < node2Height
                      => /\ node1Index \in PathTo(Tree, last.key)
                         /\ node2Index \notin PathTo(Tree, last.key)
                   /\ node2Height < node1Height
                      => /\ node2Index \in PathTo(Tree, last.key)
                         /\ node1Index \notin PathTo(Tree, last.key)

\* both children of the root contained the new box, the right one was the
\* higher, and the new leaf went below the left one
C21_Witness ==
    /\ InsertedFrom
    /\ IsInner(last.pre[1], 0)
    /\ LET b == LeafBounds(Tree, last.key)
           node1Index == getLeftChildIndex(last.pre[1], 0)
           node2Index == getRightChildIndex(last.pre[1], 0)
       IN /\ containsBox(getNodeBounds(last.pre[1], node1Index), b)
          /\ containsBox(getNodeBounds(last.pre[1], node2Index), b)
          /\ getNodeHeight(last.pre[1], node1Index)
                < getNodeHeight(last.pre[1], node2Index)
          /\ node1Index \in PathTo(Tree, last.key)

\* the two children of inner node i of pre tie on containment, on the
\* increase of the volume and on the height, for the box b
FullTie(pre, i, b) ==
    /\ VolumeTie(getNodeBounds(pre, getLeftChildIndex(pre, i)),
                 getNodeBounds(pre, getRightChildIndex(pre, i)), b)
    /\ getNodeHeight(pre, getLeftChildIndex(pre, i))
          = getNodeHeight(pre, getRightChildIndex(pre, i))

\* the child of inner node i of pre that the insert of data went into
SelectedChild(pre, post, data, i) ==
    IF getLeftChildIndex(pre, i) \in PathTo(post, data)
    THEN getLeftChildIndex(pre, i)
    ELSE getRightChildIndex(pre, i)

RECURSIVE RoundRobinFrom(_, _, _, _, _)
\* from node i of pre down, with n full ties counted so far: every full tie
\* selects the first child when n is even and the second when n is odd and
\* counts one more, no other selection counts, and the count at the leaf is
\* the count the insert leaves
RoundRobinFrom(pre, post, data, i, n) ==
    IF ~IsInner(pre, i) THEN post.choice = n
    ELSE IF FullTie(pre, i, LeafBounds(post, data))
    THEN /\ SelectedChild(pre, post, data, i) =
               IF n % 2 = 0 THEN getLeftChildIndex(pre, i)
               ELSE getRightChildIndex(pre, i)
         /\ RoundRobinFrom(pre, post, data,
                           SelectedChild(pre, post, data, i), (n + 1) % 2)
    ELSE RoundRobinFrom(pre, post, data, SelectedChild(pre, post, data, i), n)

\* the insert of data that led from pre to post
RoundRobin(pre, post, data) ==
    IF empty(pre) THEN post.choice = pre.choice
    ELSE RoundRobinFrom(pre, post, data, 0, pre.choice)

\* C22: the full ties (on containment, volume increase and height) alternate:
\* the first one selects the first (left) child, the next one the second
\* (right) child, and so on; a selection decided by an earlier rule, and a
\* call that selects nothing, leave the alternation where it was.
C22_RoundRobin ==
    /\ choice = 0
    /\ [][IF last'.op = "insert" /\ last'.res = "ok"
          THEN RoundRobin(Tree, TreeNext, last'.key)
          ELSE IF last'.op = "update" /\ last'.res = "ok"
          THEN RoundRobin(remove(Tree, last'.key).t, TreeNext, last'.key)
          ELSE choice' = choice]_vars

\* the second of two full ties: one full tie was counted before this
\* insert, the children of the root tied fully, and the new leaf went
\* below the right child
C22_Witness ==
    /\ InsertedFrom
    /\ last.pre[1].choice = 1
    /\ IsInner(last.pre[1], 0)
    /\ FullTie(last.pre[1], 0, LeafBounds(Tree, last.key))
    /\ getRightChildIndex(last.pre[1], 0) \in PathTo(Tree, last.key)
    /\ choice = 0

\* the slot at which the descent of the insert of data ended: the parent of
\* the leaf that post has for data
SplitSlot(post, data) == getParentIndex(post, post.leafForData[data])

\* slot i held the leaf L in pre and holds in post the inner node the split
\* of L for data made
IsSplitOf(pre, post, i, data) ==
    /\ IsLeaf(pre, i)
    /\ IsInner(post, i)
    /\ getLeftChildIndex(post, i) # i
    /\ IsLeaf(post, getLeftChildIndex(post, i))
    /\ getNodeBounds(post, getLeftChildIndex(post, i)) = getNodeBounds(pre, i)
    /\ NodeAt(post, getLeftChildIndex(post, i)).data = NodeAt(pre, i).data
    /\ getParentIndex(post, getLeftChildIndex(post, i)) = i
    /\ getRightChildIndex(post, i) = post.leafForData[data]
    /\ IsLeaf(post, getRightChildIndex(post, i))
    /\ NodeAt(post, getRightChildIndex(post, i)).data = data
    /\ getParentIndex(post, getRightChildIndex(post, i)) = i
    /\ getNodeBounds(post, i) =
          merge(getNodeBounds(pre, i), LeafBounds(post, data))
    /\ getNodeHeight(post, i) = 2
    /\ getParentIndex(post, i) = getParentIndex(pre, i)

\* C23: an insert into a tree that is not empty ends at a leaf L at a slot i;
\* slot i becomes an inner node whose left child is a copy of L (same bounds
\* and data) in another slot, whose right child is the new leaf of the
\* inserted data, whose bounds are the merge of both, whose height is 2 and
\* whose parent is the parent L had; both children have parent i.
C23_LeafSplit ==
    (InsertedFrom /\ ~empty(last.pre[1]))
        => IsSplitOf(last.pre[1], Tree, SplitSlot(Tree, last.key), last.key)

\* a leaf below the root was split, in a tree that had a free slot to reuse
C23_Witness ==
    /\ InsertedFrom
    /\ ~empty(last.pre[1])
    /\ SplitSlot(Tree, last.key) # 0
    /\ last.pre[1].freeNode # None
    /\ IsSplitOf(last.pre[1], Tree, SplitSlot(Tree, last.key), last.key)

\* the remove just made found its data in a leaf that was not the root, and
\* is recorded with the tree it started from
RemovedBelowRoot ==
    /\ last.op = "remove"
    /\ last.before # <<>>
    /\ last.before[1].leafForData[last.key] # 0

\* the tree t with the child link of grandParentIndex that led to
\* parentIndex leading to siblingIndex instead
Relinked(t, grandParentIndex, parentIndex, siblingIndex) ==
    [t EXCEPT !.nodes[grandParentIndex] =
        IF @.leftChildIndex = parentIndex
        THEN [@ EXCEPT !.leftChildIndex = siblingIndex]
        ELSE [@ EXCEPT !.rightChildIndex = siblingIndex]]

RECURSIVE Recomputed(_, _, _)
\* the tree t with the bounds and the height of the inner node at index and
\* of every node above it (at most n of them) computed from its children
Recomputed(t, index, n) ==
    IF index = None \/ n = 0 THEN t
    ELSE Recomputed(
             [t EXCEPT !.nodes[index].bounds =
                           merge(getNodeBounds(t, getLeftChildIndex(t, index)),
                                 getNodeBounds(t, getRightChildIndex(t, index))),
                       !.nodes[index].height =
                           Max(getNodeHeight(t, getLeftChildIndex(t, index)),
                               getNodeHeight(t, getRightChildIndex(t, index)))
                               + 1],
             getParentIndex(t, index), n - 1)

\* post is pre with the subtree of the sibling in the place of the subtree
\* of the parent
SiblingPromoted(pre, post, grandParentIndex, parentIndex, siblingIndex) ==
    /\ compareSubtrees(post, pre, parentIndex, siblingIndex)
    /\ getParentIndex(post, parentIndex) = grandParentIndex
    /\ IF grandParentIndex = None
       THEN parentIndex = 0 /\ compareSubtrees(post, pre, 0, siblingIndex)
       ELSE compareSubtrees(
                post,
                Recomputed(Relinked(pre, grandParentIndex, parentIndex,
                                    siblingIndex),
                           grandParentIndex, Size(pre)),
                0, 0)

\* the remove of data from pre gave post
RemovedFrom(pre, post, data) ==
    SiblingPromoted(pre, post,
                    getParentIndex(pre, getParentIndex(pre, pre.leafForData[data])),
                    getParentIndex(pre, pre.leafForData[data]),
                    getSiblingIndex(pre, pre.leafForData[data]))

\* C24: remove(k) of a leaf that is not the root, with parent P and sibling
\* S, puts S with its whole subtree into the slot of P and makes the former
\* parent of P its parent: the tree is then structurally equal to the tree
\* before with the subtree of P replaced by the subtree of S (the new root
\* at slot 0 when P was the root) and with the bounds and heights of the
\* nodes above recomputed.
C24_RemovePromotesSibling ==
    RemovedBelowRoot => RemovedFrom(last.before[1], Tree, last.key)

\* the sibling was an inner node and the parent was not the root
C24_Witness ==
    /\ RemovedBelowRoot
    /\ IsInner(last.before[1],
               getSiblingIndex(last.before[1],
                               last.before[1].leafForData[last.key]))
    /\ getParentIndex(last.before[1],
                      last.before[1].leafForData[last.key]) # 0
    /\ RemovedFrom(last.before[1], Tree, last.key)

\* the remove of data from pre, whose leaf was at index, gave post: the
\* leaf of data is gone and no other, two more slots are free, and the
\* slot at index and the slot at freed are among the free ones
FreedWith(pre, post, data, index, freed) ==
    /\ KeySet(post) = KeySet(pre) \ {data}
    /\ Cardinality(LeafSlots(post)) = Cardinality(LeafSlots(pre)) - 1
    /\ Cardinality(InnerSlots(post)) = Cardinality(InnerSlots(pre)) - 1
    /\ Cardinality(FreeSlots(post)) = Cardinality(FreeSlots(pre)) + 2
    /\ IsFree(post, index)
    /\ IsFree(post, freed)

\* C25 (as amended): remove(k) of a leaf that is not the root removes
\* exactly one leaf and one inner node and frees two slots: afterwards the
\* slot that held the sibling S and the slot that held the target leaf are
\* Free, the slot that held the parent P holds S, and the number of Free
\* slots is exactly 2 more than before.
C25_RemoveFreesSiblingSlot ==
    RemovedBelowRoot =>
        /\ FreedWith(last.before[1], Tree, last.key,
                     last.before[1].leafForData[last.key],
                     getSiblingIndex(last.before[1],
                                     last.before[1].leafForData[last.key]))
        /\ ~IsFree(Tree, getParentIndex(last.before[1],
                                        last.before[1].leafForData[last.key]))

\* a leaf below the root was removed from a tree that had free slots already
C25_Witness ==
    /\ RemovedBelowRoot
    /\ FreeSlots(last.before[1]) # {}
    /\ Cardinality(FreeSlots(Tree)) = Cardinality(FreeSlots(last.before[1])) + 2
    /\ IsFree(Tree, getSiblingIndex(last.before[1],
                                    last.before[1].leafForData[last.key]))

\* C25 as stated: after the remove of a leaf that is not the root, the slot
\* that held the parent P and the slot that held the target leaf are both
\* Free, and the number of Free slots is exactly 2 more than before.
C25_RemoveFreesParentSlot ==
    RemovedBelowRoot =>
        FreedWith(last.before[1], Tree, last.key,
                  last.before[1].leafForData[last.key],
                  getParentIndex(last.before[1],
                                 last.before[1].leafForData[last.key]))

\* the remove just made found its data in the leaf at slot 0, and is
\* recorded with the tree it started from
RemovedRoot ==
    /\ last.op = "remove"
    /\ last.before # <<>>
    /\ last.before[1].leafForData[last.key] = 0

\* C26: remove(k) of the key whose leaf is the root (slot 0), which is then
\* the only key, clears the whole tree: afterwards empty() is true and
\* m_nodes, m_leafForData and m_freeNode are empty, so the slots freed
\* earlier are gone as well.
C26_RemoveRootClears ==
    RemovedRoot =>
        /\ KeySet(last.before[1]) = {last.key}
        /\ LeafSlots(last.before[1]) = {0}
        /\ empty(Tree)
        /\ m_nodes = <<>>
        /\ m_leafForData = <<>>
        /\ m_freeNode = None

\* the only key was removed from a tree that had free slots
C26_Witness ==
    /\ RemovedRoot
    /\ FreeSlots(last.before[1]) # {}
    /\ last.before[1].freeNode # None
    /\ m_nodes = <<>>
    /\ m_freeNode = None

\* the clear just made is recorded with the tree it started from
ClearedFrom == last.op = "clear" /\ last.before # <<>>

\* data, which pre held, can be inserted into t with the bounds it had
InsertableAgain(t, pre, data) ==
    /\ insert(t, LeafBounds(pre, data), data).res = "ok"
    /\ contains(insert(t, LeafBounds(pre, data), data).t, data)
    /\ LeafBounds(insert(t, LeafBounds(pre, data), data).t, data)
         = LeafBounds(pre, data)

\* C27: after clear() the content of the tree is that of a tree just
\* constructed: m_nodes, m_leafForData and m_freeNode are empty, empty() is
\* true, contains(k) is false for every key, findIntersectors and
\* findContainers return nothing, and every key the tree held can be
\* inserted again.
C27_ClearIsFresh ==
    ClearedFrom =>
        /\ m_nodes = <<>>
        /\ m_leafForData = <<>>
        /\ m_freeNode = None
        /\ ~invalid
        /\ empty(Tree)
        /\ \A k \in Keys : ~contains(Tree, k)
        /\ \A r \in Rays : findIntersectors(Tree, r) = <<>>
        /\ \A p \in Points :
               findContainers(Tree, p) = <<>> /\ findContainersOut(Tree, p) = <<>>
        /\ \A k \in KeySet(last.before[1]) :
               InsertableAgain(Tree, last.before[1], k)

\* a tree with three keys and with free slots was cleared
C27_Witness ==
    /\ ClearedFrom
    /\ Cardinality(KeySet(last.before[1])) >= 3
    /\ last.before[1].freeNode # None
    /\ empty(Tree)
    /\ \A k \in KeySet(last.before[1]) :
           InsertableAgain(Tree, last.before[1], k)

\* a coordinate of the box is NaN
HasNaN(box) == \E i \in Dims : box.min[i] = NaN \/ box.max[i] = NaN

\* the slots of t that hold a leaf or an inner node with a NaN in its bounds
NaNSlots(t) ==
    {i \in LeafSlots(t) \cup InnerSlots(t) : HasNaN(getNodeBounds(t, i))}

\* C28: after any sequence of insert, remove, update and clear calls, boxes
\* with a NaN in any coordinate among the arguments, no leaf and no inner
\* node of the tree has a NaN in its bounds.
C28_NoNaNBounds == NaNSlots(Tree) = {}

\* an update with a NaN box was just refused on a tree with inner nodes,
\* and an insert with a NaN box would be refused as well
C28_Witness ==
    /\ last.op = "update"
    /\ last.res = "InvalidBounds"
    /\ InnerSlots(Tree) # {}
    /\ NaNSlots(Tree) = {}
    /\ \A b \in NaNBoxes : \A k \in KeysAll :
           insert(Tree, b, k).res = "InvalidBounds"

\* C29: the trees of a process are deterministic independently of each
\* other: the tie-break counter is state of the tree, so two trees that
\* have received the same calls are structurally equal, whatever calls
\* other trees received in between.
C29_TreesIndependent ==
    other.pending = <<>> => TreeEquals(Tree, OtherTree)

RECURSIVE Logical(_, _, _)
\* the ordered binary tree below slot index of t, as a value without slot
\* indices: the bounds and the data of a leaf, the bounds and the height of
\* an inner node and the trees of its left and of its right child (n bounds
\* the depth)
Logical(t, index, n) ==
    IF IsInner(t, index) /\ n > 0
    THEN [bounds |-> getNodeBounds(t, index),
          height |-> getNodeHeight(t, index), data |-> None,
          children |-> <<Logical(t, getLeftChildIndex(t, index), n - 1),
                         Logical(t, getRightChildIndex(t, index), n - 1)>>]
    ELSE [bounds |-> getNodeBounds(t, index), height |-> 1,
          data |-> NodeAt(t, index).data, children |-> <<>>]

\* both trees are empty, or neither is and their logical trees are the same
SameLogicalTree(lhs, rhs) ==
    \/ empty(lhs) /\ empty(rhs)
    \/ /\ ~empty(lhs)
       /\ ~empty(rhs)
       /\ Logical(lhs, 0, Size(lhs)) = Logical(rhs, 0, Size(rhs))

\* the vector nodes with the inner node at slot nodeIndex made of what
\* makeNode returned for its two children
makeInnerOver(nodes, nodeIndex, parentIndex, left, right) ==
    [nodes |-> [nodes EXCEPT ![nodeIndex + 1] =
                   InnerNode(merge(left.bounds, right.bounds), parentIndex,
                             left.index, right.index,
                             Max(left.height, right.height) + 1)],
     index |-> nodeIndex,
     bounds |-> merge(left.bounds, right.bounds),
     height |-> Max(left.height, right.height) + 1]

RECURSIVE makeNode(_, _, _, _, _)
\* makeNode of the tests, for the logical tree below slot index of t: the
\* nodes are appended to the vector nodes in preorder (slot i is nodes[i + 1]),
\* the bounds and heights of the inner nodes computed from the leaves
makeNode(t, index, parentIndex, nodes, n) ==
    IF IsInner(t, index) /\ n > 0
    THEN makeInnerOver(
             makeNode(t, getRightChildIndex(t, index), Len(nodes),
                      makeNode(t, getLeftChildIndex(t, index), Len(nodes),
                               Append(nodes, FreeNode(None)), n - 1).nodes,
                      n - 1).nodes,
             Len(nodes), parentIndex,
             makeNode(t, getLeftChildIndex(t, index), Len(nodes),
                      Append(nodes, FreeNode(None)), n - 1),
             makeNode(t, getRightChildIndex(t, index), Len(nodes),
                      makeNode(t, getLeftChildIndex(t, index), Len(nodes),
                               Append(nodes, FreeNode(None)), n - 1).nodes,
                      n - 1))
    ELSE [nodes |-> Append(nodes, LeafNode(getNodeBounds(t, index), parentIndex,
                                          NodeAt(t, index).data)),
          index |-> Len(nodes),
          bounds |-> getNodeBounds(t, index),
          height |-> 1]

\* AABBTree2(std::vector<Node> nodes): the tree over the vector, with the
\* entry of every leaf in m_leafForData
makeTree(nodes) ==
    [nodes |-> [i \in 0 .. Len(nodes) - 1 |-> nodes[i + 1]],
     leafForData |->
         [d \in {nodes[i].data : i \in {j \in DOMAIN nodes :
                                            nodes[j].type = "leaf"}} |->
             CHOOSE i \in 0 .. Len(nodes) - 1 :
                 nodes[i + 1].type = "leaf" /\ nodes[i + 1].data = d],
     freeNode |-> None, choice |-> 0, invalid |-> FALSE]

\* a tree newly built, as the tests build the trees they expect, of the
\* shape, the leaf bounds and the data of t
Rebuilt(t) ==
    IF empty(t) THEN makeTree(<<>>)
    ELSE makeTree(makeNode(t, 0, None, <<>>, Size(t)).nodes)

\* C30: operator== of two trees is true iff both are empty or their logical
\* trees from slot 0 are the same ordered binary trees (inner nodes: bounds,
\* height, left with left and right with right; leaves: bounds and data).
\* Slot numbers, the length of m_nodes and the free list play no part: a
\* tree reached through calls equals a tree newly built of the same shape,
\* and an empty tree never equals one that is not empty.
C30_EqualityIsStructural ==
    /\ TreeEquals(Tree, OtherTree) <=> SameLogicalTree(Tree, OtherTree)
    /\ TreeEquals(OtherTree, Tree) <=> SameLogicalTree(Tree, OtherTree)
    /\ TreeEquals(Tree, Rebuilt(Tree))
    /\ TreeEquals(Rebuilt(OtherTree), OtherTree)
    /\ (empty(Tree) # empty(OtherTree)) =>
           ~TreeEquals(Tree, OtherTree) /\ ~TreeEquals(OtherTree, Tree)

\* two trees with inner nodes compare equal although their vectors differ,
\* and this tree, which has free slots, equals the shorter tree newly built
\* of its shape
C30_Witness ==
    /\ InnerSlots(Tree) # {}
    /\ TreeEquals(Tree, OtherTree)
    /\ m_nodes # other.nodes
    /\ FreeSlots(Tree) # {}
    /\ Size(Rebuilt(Tree)) < Size(Tree)
    /\ TreeEquals(Tree, Rebuilt(Tree))

\* an empty tree and a tree that is not empty are compared
C30_WitnessEmpty ==
    /\ empty(OtherTree)
    /\ ~empty(Tree)
    /\ ~TreeEquals(Tree, OtherTree)

\* the slot a node stored in t goes to: the head of the free list, or the
\* end of the vector when the list is empty
NextSlot(t) == IF t.freeNode # None THEN t.freeNode ELSE Size(t)

\* the head of the free list of t after one node was stored
NextFree(t) == IF t.freeNode # None THEN NodeAt(t, t.freeNode).next ELSE None

\* the slot the second of two nodes stored in t goes to
SecondSlot(t) ==
    IF NextFree(t) # None THEN NextFree(t)
    ELSE IF t.freeNode # None THEN Size(t) ELSE Size(t) + 1

\* post is pre after the two nodes of a split were stored: the copy of the
\* split leaf and then the new leaf of data took the free slots, last freed
\* first, and the vector grew by the nodes the free list had no slot for
StoredTwo(pre, post, data) ==
    /\ getLeftChildIndex(post, SplitSlot(post, data)) = NextSlot(pre)
    /\ post.leafForData[data] = SecondSlot(pre)
    /\ Size(post) = Size(pre) + 2 - Min(2, Cardinality(FreeSlots(pre)))
    /\ post.freeNode =
          IF NextFree(pre) # None THEN NodeAt(pre, NextFree(pre)).next
          ELSE None
    /\ Size(post) > Size(pre) => post.freeNode = None /\ FreeSlots(post) = {}

\* post is pre after the remove of the leaf at index with the sibling at
\* siblingIndex: the vector is as long as it was, and the free list starts
\* with the slot freed last (the leaf's), then the slot freed before it
\* (the sibling's), then the slots that were free already
FreedTwo(pre, post, index, siblingIndex) ==
    /\ Size(post) = Size(pre)
    /\ post.freeNode = index
    /\ NodeAt(post, index).next = siblingIndex
    /\ NodeAt(post, siblingIndex).next = pre.freeNode
    /\ NextSlot(post) = index
    /\ storeNode(post, LeafNode(B4, None, None)).index = index
    /\ storeNode(post, LeafNode(B4, None, None)).t.freeNode = siblingIndex

\* C31: a node is stored in a freed slot whenever there is one: it goes to
\* the slot at m_freeNode, and m_freeNode becomes that slot's next (the slot
\* freed last is used first); m_nodes grows only when the free list is
\* empty, and it gets shorter only when the tree is cleared.
C31_FreeSlotsReusedFirst ==
    /\ (InsertedFrom /\ ~empty(last.pre[1]))
           => StoredTwo(last.pre[1], Tree, last.key)
    /\ (InsertedFrom /\ empty(last.pre[1]))
           => m_leafForData[last.key] = 0 /\ Size(Tree) = 1
    /\ RemovedBelowRoot
           => FreedTwo(last.before[1], Tree,
                       last.before[1].leafForData[last.key],
                       getSiblingIndex(last.before[1],
                                       last.before[1].leafForData[last.key]))
    /\ (last.op = "remove" /\ last.before # <<>>
          /\ Size(Tree) < Size(last.before[1])) => empty(Tree)

\* an insert found four free slots: the copy of the split leaf and the new
\* leaf took the two freed last, and the vector is as long as it was
C31_Witness ==
    /\ InsertedFrom
    /\ Cardinality(FreeSlots(last.pre[1])) = 4
    /\ InnerSlots(last.pre[1]) # {}
    /\ StoredTwo(last.pre[1], Tree, last.key)
    /\ Size(Tree) = Size(last.pre[1])
    /\ Cardinality(FreeSlots(Tree)) = 2

\* the assertions of remove(data) and of the moveNode it calls hold on t
RemoveAsserts(t, data) ==
    /\ IsLeaf(t, t.leafForData[data])
    /\ t.leafForData[data] # 0 =>
         /\ getParentIndex(t, t.leafForData[data]) # None
         /\ IsInner(t, getParentIndex(t, t.leafForData[data]))
         /\ getSiblingIndex(t, t.leafForData[data]) \in DOMAIN t.nodes
         /\ ~IsFree(t, getSiblingIndex(t, t.leafForData[data]))
         /\ getSiblingIndex(t, t.leafForData[data]) # t.leafForData[data]

\* no query on t visits a Free slot
QueriesVisitNoFreeSlot(t) ==
    /\ \A ray \in Rays : None \notin Range(findIntersectorsOut(t, ray))
    /\ \A point \in Points : None \notin Range(findContainersOut(t, point))

\* no call has reached an "Invalid node type" branch, checkInvariant() holds,
\* and what the next call asserts and reads holds as well
NoInvalidNodeType(t) ==
    /\ ~t.invalid
    /\ checkNodes(t)
    /\ checkLeafForData(t)
    /\ ~empty(t) => ~IsFree(t, 0)
    /\ \A i \in InnerSlots(t) : \A c \in Children(t, i) :
           c \in DOMAIN t.nodes /\ ~IsFree(t, c)
    /\ \A data \in DOMAIN t.leafForData : RemoveAsserts(t, data)
    /\ \A data \in KeysAll : ~remove(t, data).t.invalid
    /\ QueriesVisitNoFreeSlot(t)

MovedKeys(pre, post) ==
    {k \in KeySet(pre) \cap KeySet(post) :
        pre.leafForData[k] # post.leafForData[k]}

\* every key that pre and post both hold has in post a leaf with that data
\* and with the bounds it had in pre
LeavesKept(pre, post) ==
    \A k \in KeySet(pre) \cap KeySet(post) :
        /\ IsLeaf(post, post.leafForData[k])
        /\ NodeAt(post, post.leafForData[k]).data = k
        /\ LeafBounds(post, k) = LeafBounds(pre, k)

\* the data of the leaf at slot index of t, if it holds a leaf
LeafDataAt(t, index) ==
    IF IsLeaf(t, index) THEN {NodeAt(t, index).data} ELSE {}

\* C33: a successful insert or remove changes the slot of at most one key
\* that was in the tree and stays in it (insert: the key of the leaf that is
\* split; remove: the key of the sibling, when the sibling is a leaf); every
\* other leaf keeps its entry in m_leafForData, and every leaf keeps its
\* bounds and data.
C33_OneLeafMoves ==
    /\ InsertedFrom =>
          /\ KeySet(Tree) = KeySet(last.pre[1]) \cup {last.key}
          /\ LeavesKept(last.pre[1], Tree)
          /\ MovedKeys(last.pre[1], Tree) =
                IF empty(last.pre[1]) THEN {}
                ELSE LeafDataAt(last.pre[1], SplitSlot(Tree, last.key))
          /\ Cardinality(MovedKeys(last.pre[1], Tree)) <= 1
    /\ (last.op = "remove" /\ last.before # <<>>) =>
          /\ KeySet(Tree) = KeySet(last.before[1]) \ {last.key}
          /\ LeavesKept(last.before[1], Tree)
          /\ MovedKeys(last.before[1], Tree) =
                IF last.before[1].leafForData[last.key] = 0 THEN {}
                ELSE LeafDataAt(last.before[1],
                                getSiblingIndex(last.before[1],
                                    last.before[1].leafForData[last.key]))
          /\ Cardinality(MovedKeys(last.before[1], Tree)) <= 1

\* a remove below the root of a tree of four keys moved the leaf that was
\* the sibling, and the two other keys are where they were
C33_Witness ==
    /\ RemovedBelowRoot
    /\ Cardinality(KeySet(last.before[1])) = 4
    /\ getParentIndex(last.before[1],
                      last.before[1].leafForData[last.key]) # 0
    /\ Cardinality(MovedKeys(last.before[1], Tree)) = 1
    /\ LeavesKept(last.before[1], Tree)

\* the two children of the inner node at slot i of t are different slots,
\* neither Free, and both name i as their parent
ChildrenAgree(t, i) ==
    /\ getLeftChildIndex(t, i) # getRightChildIndex(t, i)
    /\ \A c \in Children(t, i) :
           /\ c \in DOMAIN t.nodes
           /\ ~IsFree(t, c)
           /\ getParentIndex(t, c) = i

\* the node at slot i of t, not the root, is a child of the inner node its
\* parent index names
ParentAgrees(t, i) ==
    /\ getParentIndex(t, i) # None
    /\ IsInner(t, getParentIndex(t, i))
    /\ i \in Children(t, getParentIndex(t, i))

ParentsAndChildrenAgree(t) ==
    /\ \A i \in InnerSlots(t) : ChildrenAgree(t, i)
    /\ ~empty(t) => ~IsFree(t, 0) /\ getParentIndex(t, 0) = None
    /\ \A i \in (LeafSlots(t) \cup InnerSlots(t)) \ {0} : ParentAgrees(t, i)

\* C34: after any sequence of insert, remove, update and clear calls the
\* parent and child indices agree: the children of every inner node at slot
\* i are two different slots that are not Free and whose parent index is i,
\* the root at slot 0 has no parent, and every other node that is not Free
\* is the left or the right child of the node its parent index names.
C34_ParentChildAgreement == ParentsAndChildrenAgree(Tree)

\* a remove has moved an inner sibling into the slot of a parent below the
\* root, and the indices agree
C34_Witness ==
    /\ RemovedBelowRoot
    /\ IsInner(last.before[1],
               getSiblingIndex(last.before[1],
                               last.before[1].leafForData[last.key]))
    /\ getParentIndex(last.before[1],
                      last.before[1].leafForData[last.key]) # 0
    /\ ParentsAndChildrenAgree(Tree)
    /\ ChildrenAgree(Tree, getParentIndex(last.before[1],
                                          last.before[1].leafForData[last.key]))

\* t holds n keys in n leaves under n - 1 inner nodes, none when n = 0, and
\* its root is a leaf iff n = 1
CountsFor(t, n) ==
    /\ empty(t) <=> n = 0
    /\ Cardinality(LeafSlots(t)) = n
    /\ n > 0 => Cardinality(InnerSlots(t)) = n - 1
    /\ n > 0 => Size(t) - Cardinality(FreeSlots(t)) = 2 * n - 1
    /\ IsLeaf(t, 0) <=> n = 1

\* C35: after any sequence of insert, remove, update and clear calls, with
\* n keys in the tree: m_nodes is empty iff n = 0; for n > 0 there are
\* exactly n leaves and n - 1 inner nodes (2n - 1 slots that are not Free);
\* and slot 0 holds a leaf iff n = 1.
C35_NodeCounts == CountsFor(Tree, Cardinality(DOMAIN m_leafForData))

\* a remove has left one key, whose leaf was moved to slot 0, and two free
\* slots
C35_Witness ==
    /\ last.op = "remove"
    /\ Cardinality(DOMAIN m_leafForData) = 1
    /\ IsLeaf(Tree, 0)
    /\ Size(Tree) = 3
    /\ CountsFor(Tree, 1)

\* C36: the bounds are checked before the key: an insert with a NaN box of
\* a key that is in the tree throws the invalid-bounds error (with a valid
\* box it throws DuplicateKey), and an update with a NaN box of a key that
\* is not in the tree throws the invalid-bounds error (with a valid box it
\* throws NotFound).
C36_BoundsCheckedFirst ==
    [][\A k \in KeysAll :
          /\ \A b \in NaNBoxes :
                /\ (contains(Tree, k) /\ Insert(b, k, TRUE))
                       => last'.res = "InvalidBounds"
                /\ (~contains(Tree, k) /\ Update(b, k, TRUE))
                       => last'.res = "InvalidBounds"
          /\ (contains(Tree, k) /\ Insert(BoxOf(k), k, TRUE))
                 => last'.res = "DuplicateKey"
          /\ (~contains(Tree, k) /\ Update(BoxOf(k), k, TRUE))
                 => last'.res = "NotFound"]_vars

\* an insert with a NaN box has thrown InvalidBounds on a tree that holds
\* every key (the key of the call among them)
C36_Witness ==
    /\ last.op = "insert"
    /\ last.res = "InvalidBounds"
    /\ DOMAIN m_leafForData = KeysAll

\* C37: SignalDelayer coalesces the requests: at most one callback is
\* pending at any time, m_isQueued is true exactly while one is pending, a
\* queueSignal() call made while one is pending posts nothing, and every
\* callback posted makes exactly one emission of processSignal().
C37_Coalesces ==
    /\ [](/\ delayer.timers <= 1
          /\ delayer.m_isQueued <=> delayer.timers = 1
          /\ delayer.posted = delayer.emitted + delayer.timers
          /\ delayer.posted <= delayer.calls)
    /\ [][(delayer.m_isQueued /\ delayer'.calls > delayer.calls)
            => /\ delayer'.timers = delayer.timers
               /\ delayer'.posted = delayer.posted
               /\ delayer'.emitted = delayer.emitted]_vars

\* four calls were made while one callback was pending, and there was one
\* emission
C37_Witness ==
    /\ delayer.calls = 4
    /\ delayer.posted = 1
    /\ delayer.emitted = 1
    /\ delayer.timers = 0
    /\ ~delayer.emitting

\* C38: SignalDelayer loses no request: after every queueSignal() call, a
\* call from a slot of processSignal() included, a callback is pending, and
\* an emission of processSignal() starts later, provided that the event
\* loop runs the pending timers.
C38_NoRequestLost ==
    /\ [](delayer.waiting => delayer.m_isQueued /\ delayer.timers = 1)
    /\ delayer.waiting ~> ~delayer.waiting

\* queueSignal() was called from a slot of processSignal(), and a new
\* callback is pending while the emission goes on
C38_Witness ==
    /\ delayer.emitting
    /\ delayer.waiting
    /\ delayer.timers = 1
    /\ delayer.emitted >= 1

\* The precedence invariant: the precedence of every binary node is less
\* than or equal to the precedences of its operands.
RECURSIVE PrecedenceOrdered(_)
PrecedenceOrdered(e) ==
    \/ ~IsBinary(e)
    \/ /\ precedence(e) <= precedence(e[2])
       /\ precedence(e) <= precedence(e[3])
       /\ PrecedenceOrdered(e[2])
       /\ PrecedenceOrdered(e[3])

\* C39: after an Expression is constructed from a BinaryExpression whose
\* two operands satisfy the precedence invariant, the expression satisfies
\* it: the precedence of every binary node is less than or equal to the
\* precedences of its operands, where a node that is not binary has
\* precedence 13. No assert of the rebalancing fails.
C39_PrecedenceInvariant ==
    (/\ expression # NoExpression
     /\ PrecedenceOrdered(expression.leftOperand)
     /\ PrecedenceOrdered(expression.rightOperand))
    => /\ expression.m_expression # AssertionFailed
       /\ IsBinary(expression.m_expression)
       /\ PrecedenceOrdered(expression.m_expression)

\* a multiplication of two sums of conjunctions was made: both operands
\* are below the operator's precedence and the operator went down twice
C39_Witness ==
    /\ expression # NoExpression
    /\ expression.operator = "Multiplication"
    /\ IsBinary(expression.leftOperand)
    /\ IsBinary(expression.rightOperand)
    /\ expression.leftOperand[1] = "LogicalAnd"
    /\ IsBinary(expression.leftOperand[3])
    /\ expression.leftOperand[3][1] = "Addition"
    /\ expression.rightOperand[1] = "Addition"
    /\ PrecedenceOrdered(expression.leftOperand)
    /\ PrecedenceOrdered(expression.rightOperand)
    /\ ~PrecedenceOrdered(BinaryExpression(expression.operator,
                              expression.leftOperand, expression.rightOperand))
    /\ ~PrecedenceOrdered(rebalanceOnce(BinaryExpression(expression.operator,
                              expression.leftOperand, expression.rightOperand)))
    /\ PrecedenceOrdered(expression.m_expression)

====
